---------------------------- MODULE Spec2Model ----------------------------
(***************************************************************************)
(* Surrey activity booking automation.                                     *)
(*                                                                         *)
(*   SpecBook   one call of SurreyBookingAutomation.book (src/booking.ts)   *)
(*   SpecCron   getNextCronTrigger over the rule catalog (src/scheduler.ts) *)
(*   SpecSched  the recurring jobs of startScheduler and their callbacks    *)
(*   SpecCli    the commands that perform acquisitions and their exit code  *)
(*   SpecRun    one executeBooking call and the timing of its attempt       *)
(*                                                                         *)
(* Text is a sequence of one-character strings; an instant is a number of  *)
(* seconds of wall-clock time counted from a Sunday 00:00:00.              *)
(***************************************************************************)
EXTENDS Integers, Sequences, FiniteSets, TLC

(***************************************************************************)
(* Bounds of the model.                                                    *)
(***************************************************************************)
MaxRows == 2

MaxFirings == 3

MaxBatch == 2

(***************************************************************************)
(* Text: the string operations findAndSelectSlot uses.                     *)
(***************************************************************************)
UPPER ==
  <<"A", "B", "C", "D", "E", "F", "G", "H", "I", "J", "K", "L", "M",
    "N", "O", "P", "Q", "R", "S", "T", "U", "V", "W", "X", "Y", "Z">>

LOWER ==
  <<"a", "b", "c", "d", "e", "f", "g", "h", "i", "j", "k", "l", "m",
    "n", "o", "p", "q", "r", "s", "t", "u", "v", "w", "x", "y", "z">>

WHITESPACE == {" ", "\n", "\t"}

lowerChar(c) ==
  IF \E i \in 1..26 : UPPER[i] = c
  THEN LOWER[CHOOSE i \in 1..26 : UPPER[i] = c]
  ELSE c

toLowerCase(s) == [i \in 1..Len(s) |-> lowerChar(s[i])]

RECURSIVE collapseWhitespace(_)
\* String.replace(/\s+/g, " "): every run of whitespace becomes one space.
collapseWhitespace(s) ==
  IF s = <<>> THEN <<>>
  ELSE IF Head(s) \in WHITESPACE
       THEN IF Len(s) > 1 /\ s[2] \in WHITESPACE
            THEN collapseWhitespace(Tail(s))
            ELSE <<" ">> \o collapseWhitespace(Tail(s))
       ELSE <<Head(s)>> \o collapseWhitespace(Tail(s))

RECURSIVE trimStart(_)
trimStart(s) ==
  IF s # <<>> /\ Head(s) \in WHITESPACE THEN trimStart(Tail(s)) ELSE s

RECURSIVE trimEnd(_)
trimEnd(s) ==
  IF s # <<>> /\ s[Len(s)] \in WHITESPACE
  THEN trimEnd(SubSeq(s, 1, Len(s) - 1))
  ELSE s

trim(s) == trimEnd(trimStart(s))

\* String.includes(t)
includes(s, t) ==
  \E i \in 0..(Len(s) - Len(t)) : SubSeq(s, i + 1, i + Len(t)) = t

\* String.split(" ")[0]: the text before the first space.
firstWord(s) ==
  IF \E i \in 1..Len(s) : s[i] = " "
  THEN SubSeq(s, 1, (CHOOSE i \in 1..Len(s) :
                       s[i] = " " /\ \A j \in 1..(i - 1) : s[j] # " ") - 1)
  ELSE s

\* text.toLowerCase().replace(/\s+/g, " ").trim()
normalize(s) == trim(collapseWhitespace(toLowerCase(s)))

(***************************************************************************)
(* The requests and the row texts the scan is run on.                      *)
(***************************************************************************)
\* "Drop In Badminton - Adult" (scheduler.ts ACTIVITY, the slot-matching example)
ACT_BADMINTON ==
  <<"D", "r", "o", "p", " ", "I", "n", " ", "B", "a", "d", "m", "i",
    "n", "t", "o", "n", " ", "-", " ", "A", "d", "u", "l", "t">>

\* "Yoga": a short activity name, as the book command accepts any non-empty one
ACT_YOGA ==
  <<"Y", "o", "g", "a">>

\* "8:15 am"
TIME_815 ==
  <<"8", ":", "1", "5", " ", "a", "m">>

\* "Cloverdale Recreation Centre"
LOC_CLOVERDALE ==
  <<"C", "l", "o", "v", "e", "r", "d", "a", "l", "e", " ", "R", "e",
    "c", "r", "e", "a", "t", "i", "o", "n", " ", "C", "e", "n", "t",
    "r", "e">>

\* "Guildford Recreation Centre"
LOC_GUILDFORD ==
  <<"G", "u", "i", "l", "d", "f", "o", "r", "d", " ", "R", "e", "c",
    "r", "e", "a", "t", "i", "o", "n", " ", "C", "e", "n", "t", "r",
    "e">>

\* row text "Drop In Badminton - Adult\n\t8:15 AM  Cloverdale Recreation Centre"
ROW_BADMINTON_815 ==
  <<"D", "r", "o", "p", " ", "I", "n", " ", "B", "a", "d", "m", "i",
    "n", "t", "o", "n", " ", "-", " ", "A", "d", "u", "l", "t", "\n",
    "\t", "8", ":", "1", "5", " ", "A", "M", " ", " ", "C", "l", "o",
    "v", "e", "r", "d", "a", "l", "e", " ", "R", "e", "c", "r", "e",
    "a", "t", "i", "o", "n", " ", "C", "e", "n", "t", "r", "e">>

\* row text "Drop In Badminton - Adult 10:00 am Cloverdale Recreation Centre"
ROW_BADMINTON_1000 ==
  <<"D", "r", "o", "p", " ", "I", "n", " ", "B", "a", "d", "m", "i",
    "n", "t", "o", "n", " ", "-", " ", "A", "d", "u", "l", "t", " ",
    "1", "0", ":", "0", "0", " ", "a", "m", " ", "C", "l", "o", "v",
    "e", "r", "d", "a", "l", "e", " ", "R", "e", "c", "r", "e", "a",
    "t", "i", "o", "n", " ", "C", "e", "n", "t", "r", "e">>

\* row text "Yoga 8:15 am Guildford" (22 characters)
ROW_YOGA_SHORT ==
  <<"Y", "o", "g", "a", " ", "8", ":", "1", "5", " ", "a", "m", " ",
    "G", "u", "i", "l", "d", "f", "o", "r", "d">>

REQUESTS ==
  << [activity |-> ACT_BADMINTON, time |-> TIME_815, location |-> LOC_CLOVERDALE],
     [activity |-> ACT_YOGA, time |-> TIME_815, location |-> LOC_GUILDFORD] >>

ROW_TEXTS == <<ROW_BADMINTON_815, ROW_BADMINTON_1000, ROW_YOGA_SHORT>>

\* BookingParams of one call: the request and its preferWaitlist flag.
BookingParams == [req : 1..Len(REQUESTS), preferWaitlist : BOOLEAN]

\* One event row: its text and the input buttons inside it.
Row == [text : 1..Len(ROW_TEXTS), register : BOOLEAN, waitlist : BOOLEAN]

RowLists == UNION {[1..n -> Row] : n \in 0..MaxRows}

\* "Skip rows that are too short"
MinRowLength == 30

\* rowText of the loop body
rowTextOf(text) == normalize(text)

tooShort(text) == Len(rowTextOf(text)) < MinRowLength

matchesActivity(request, text) ==
  includes(rowTextOf(text), toLowerCase(request.activity))

matchesTime(request, text) ==
  includes(rowTextOf(text), normalize(request.time))

matchesLocation(request, text) ==
  includes(rowTextOf(text), firstWord(toLowerCase(request.location)))

\* The three substrings are present, whatever the length of the row.
containsAll(request, text) ==
  matchesActivity(request, text) /\ matchesTime(request, text)
    /\ matchesLocation(request, text)

\* The loop body's decision for one row: not skipped and all three match.
rowMatches(request, text) ==
  ~tooShort(text) /\ containsAll(request, text)

\* The decisions for every request and row text of the model.
MATCH ==
  [r \in 1..Len(REQUESTS), t \in 1..Len(ROW_TEXTS) |->
     rowMatches(REQUESTS[r], ROW_TEXTS[t])]

CONTAINS ==
  [r \in 1..Len(REQUESTS), t \in 1..Len(ROW_TEXTS) |->
     containsAll(REQUESTS[r], ROW_TEXTS[t])]

(***************************************************************************)
(* State.                                                                  *)
(***************************************************************************)
VARIABLES
  pc,              \* position of the running call of book()
  params,          \* the BookingParams of the call
  rows,            \* the event rows findAndSelectSlot found on the page
  browser,         \* this.browser is set
  context,         \* this.context is set
  page,            \* this.page is set
  open,            \* the browser, context and page objects that are open
  slotInfo,        \* what findAndSelectSlot returned
  result,          \* the BookingResult under construction
  returned,        \* number of results book() has returned
  thrown,          \* book() rejected instead of returning
  raised,          \* message of the exception a stage raised, "" if none
  tolerated,       \* a sub-step exception was swallowed and the stage went on
  registerClicks,  \* clicks on a row's Register button
  waitlistClicks,  \* clicks on a row's Waitlist button
  clickedRow,      \* index of the row whose button was clicked, 0 if none
  orderClicks,     \* clicks on a Place Order control
  orderMechanism,  \* which of the five attempts clicked, 0 if none
  orderSeveral,    \* the open page shows more than one order control
  confirmed,       \* a confirmation marker was found after placement
  registrationSuccess, \* what completeRegistration returned to book()
  stagesRun,       \* the stages this call has entered
  cleanupCalls,    \* number of calls of cleanup()
  lateAction,      \* a stage acted after cleanup()
  stageLog,        \* the stages called so far and how each ended, in order
  schedule,        \* index of the rule a computation is about
  now,             \* the instant the computation is given
  nextTrigger,     \* getNextCronTrigger(schedule, now)
  secondTrigger,   \* getNextCronTrigger(schedule, nextTrigger)
  cronPc,          \* how many of the two computations have been made
  later,           \* a second instant, not before now
  target,          \* getNextTargetDate(schedule, now)
  laterTarget,     \* getNextTargetDate(schedule, later)
  laterTrigger,    \* getNextCronTrigger(schedule, later)
  catalog,         \* the rule catalog the process was built with
  schedPc,         \* the scheduler process: idle, init, running, crashed
  jobs,            \* the rules startScheduler registered a recurring job for
  callback,        \* per rule, the state of its cron callback
  firings,         \* number of cron firings so far
  command,         \* the command the process was started with
  cliPc,           \* position of the command's handler
  batch,           \* the requests of the run
  scheduleId,      \* run: index in SCHEDULES of the id given, 0 if unknown
  results,         \* success flag of every acquisition of the run, in order
  exitCode,        \* the process exit code, -1 while running
  runPc,           \* position of the executeBooking call that is followed
  origin,          \* who called executeBooking: "cron", "run" or "none"
  rule,            \* index in catalog of the rule of the call, 0 if none
  clock,           \* wall-clock time, an instant
  firedAt,         \* the instant the cron job fired or run was given
  releaseAt,       \* the release instant the phased attempt waits for
  targetDate,      \* day number of the date the request is made for
  phased,          \* the attempt is bookWithPhases, not book
  stageAt,         \* per stage of the attempt, the instant it started
  waitTicks,       \* number of poll intervals the wait has slept
  lastPoll,        \* the instant of the last poll that went on waiting
  clickAt,         \* the instant of the Register click, -1 if none
  attempts,        \* number of attempts executeBooking has started
  runs,            \* overlapping firings: per attempt, its rule, the
                   \* automation instance it constructed and its position
  fields,          \* per automation instance, the session its browser,
                   \* context and page fields refer to (0 when null)
  sessions,        \* per session launched: the attempt that launched it,
                   \* the attempts that used it, the attempt that closed it
  iterPc,          \* book-all: position inside the loop over the bookings
  outcomes,        \* book-all: the BookingResults pushed, in order
  events,          \* book-all: attempts started and returned, skips and
                   \* delays, in the order they happened
  opened,          \* the attempts of the command whose session is open
  summary,         \* what printSummary printed, <<>> before
  cleanups,        \* number of cleanup() calls that have run
  options,         \* book: the BookingParams built from the options
  errors           \* book: the fields validateBookingParams found in error

bookVars ==
  <<pc, params, rows, browser, context, page, open, slotInfo, result,
    returned, thrown, raised, tolerated, registerClicks, waitlistClicks,
    orderClicks, orderMechanism, orderSeveral,
                 confirmed, registrationSuccess, stagesRun,
    cleanupCalls, lateAction, stageLog, clickedRow>>

cronVars ==
  <<schedule, now, nextTrigger, secondTrigger, cronPc, later, target,
    laterTarget, laterTrigger>>

schedVars == <<catalog, schedPc, jobs, callback, firings>>

cliVars == <<command, cliPc, batch, scheduleId, results, exitCode>>

runVars ==
  <<runPc, origin, rule, clock, firedAt, releaseAt, targetDate, phased,
    stageAt, waitTicks, lastPoll, clickAt, attempts>>

concVars == <<runs, fields, sessions>>

batchVars == <<iterPc, outcomes, events, opened, summary, cleanups>>

validVars == <<options, errors>>

nonBookVars ==
  <<cronVars, schedVars, cliVars, runVars, concVars, batchVars, validVars>>

vars ==
  <<bookVars, cronVars, schedVars, cliVars, runVars, concVars, batchVars,
    validVars>>

\* The state of the parts of the program a specification does not run.
IdleBatch ==
  /\ iterPc = "idle"
  /\ outcomes = <<>>
  /\ events = <<>>
  /\ opened = {}
  /\ summary = <<>>
  /\ cleanups = 0

IdleValid ==
  /\ options = <<>>
  /\ errors = {}

IdleConc ==
  /\ runs = <<>>
  /\ fields = <<>>
  /\ sessions = <<>>

IdleBook ==
  /\ pc = "idle"
  /\ params = [req |-> 1, preferWaitlist |-> FALSE]
  /\ rows = <<>>
  /\ browser = FALSE /\ context = FALSE /\ page = FALSE
  /\ open = {}
  /\ slotInfo = [status |-> "none", buttonRef |-> "none"]
  /\ result = [success |-> FALSE, waitlisted |-> FALSE, message |-> "",
               error |-> ""]
  /\ returned = 0
  /\ thrown = FALSE
  /\ raised = ""
  /\ tolerated = FALSE
  /\ registerClicks = 0 /\ waitlistClicks = 0 /\ clickedRow = 0
  /\ orderClicks = 0 /\ orderMechanism = 0 /\ orderSeveral = FALSE
  /\ confirmed = FALSE
  /\ registrationSuccess = FALSE
  /\ stagesRun = {}
  /\ cleanupCalls = 0
  /\ lateAction = FALSE
  /\ stageLog = <<>>

IdleCron ==
  /\ schedule = 0
  /\ now = 0
  /\ nextTrigger = 0
  /\ secondTrigger = 0
  /\ cronPc = "idle"
  /\ later = 0
  /\ target = 0
  /\ laterTarget = 0
  /\ laterTrigger = 0

IdleSched ==
  /\ catalog = <<>>
  /\ schedPc = "idle"
  /\ jobs = {}
  /\ callback = <<>>
  /\ firings = 0

IdleCli ==
  /\ command = "none"
  /\ cliPc = "idle"
  /\ batch = <<>>
  /\ scheduleId = 0
  /\ results = <<>>
  /\ exitCode = -1

\* The stages of an attempt, in the order of book().
STAGES == <<"initialize", "login", "filter", "wait", "claim", "finalize">>

NotStarted == [st \in {STAGES[k] : k \in DOMAIN STAGES} |-> -1]

IdleRun ==
  /\ runPc = "idle"
  /\ origin = "none"
  /\ rule = 0
  /\ clock = 0
  /\ firedAt = 0
  /\ releaseAt = 0
  /\ targetDate = 0
  /\ phased = FALSE
  /\ stageAt = NotStarted
  /\ waitTicks = 0
  /\ lastPoll = -1
  /\ clickAt = -1
  /\ attempts = 0

(***************************************************************************)
(* booking.ts: SurreyBookingAutomation                                     *)
(***************************************************************************)
NoSlot == [status |-> "none", buttonRef |-> "none"]

\* const result: BookingResult = { success: false, ..., message: "" }
\* (error and waitlisted are absent: "" and FALSE)
newResult ==
  [success |-> FALSE, waitlisted |-> FALSE, message |-> "", error |-> ""]

\* Variant: the catch block sets the message and leaves error unset.
bookCatch_noError(msg) ==
  [newResult EXCEPT !.message = "Booking failed"]

\* catch (error) of book()
bookCatch(msg) ==
  [newResult EXCEPT !.message = "Booking failed", !.error = msg]

\* Variant: initialize() is called before the try block.
tryBlock_initializeOutside ==
  {"login", "navigateAndFilter", "findAndSelectSlot", "completeRegistration"}

\* The stages book() calls inside its try { } catch { } finally { }.
tryBlock ==
  {"initialize", "login", "navigateAndFilter", "findAndSelectSlot",
   "completeRegistration"}

enter(stage) ==
  /\ stagesRun' = stagesRun \cup {stage}
  /\ lateAction' = (lateAction \/ cleanupCalls > 0)

InitBook ==
  /\ pc = "initialize"
  /\ params \in BookingParams
  /\ rows = <<>>
  /\ browser = FALSE /\ context = FALSE /\ page = FALSE
  /\ open = {}
  /\ slotInfo = NoSlot
  /\ result = newResult
  /\ returned = 0
  /\ thrown = FALSE
  /\ raised = ""
  /\ tolerated = FALSE
  /\ registerClicks = 0 /\ waitlistClicks = 0 /\ clickedRow = 0
  /\ orderClicks = 0 /\ orderMechanism = 0 /\ orderSeveral = FALSE
  /\ confirmed = FALSE
  /\ registrationSuccess = FALSE
  /\ stagesRun = {}
  /\ cleanupCalls = 0
  /\ lateAction = FALSE
  /\ stageLog = <<>>
  /\ IdleCron /\ IdleSched /\ IdleCli /\ IdleRun /\ IdleConc /\ IdleBatch
  /\ IdleValid

\* initialize(): launch, newContext, newPage; each may reject, and a field
\* is assigned only when its await resolved.  An exception reaches the
\* catch of book().
initialize ==
  /\ pc = "initialize"
  /\ enter("initialize")
  /\ \E outcome \in {"ok", "launch", "newContext", "newPage"} :
       /\ stageLog' = Append(stageLog, [stage |-> "initialize",
                                         outcome |-> outcome])
       /\ browser' = (outcome # "launch")
       /\ context' = (outcome \in {"ok", "newPage"})
       /\ page' = (outcome = "ok")
       /\ open' = CASE outcome = "launch" -> {}
                    [] outcome = "newContext" -> {"browser"}
                    [] outcome = "newPage" -> {"browser", "context"}
                    [] OTHER -> {"browser", "context", "page"}
       /\ IF outcome = "ok"
          THEN /\ pc' = "login"
               /\ UNCHANGED <<result, raised, thrown>>
          ELSE /\ raised' = "initialize: " \o outcome \o " failed"
               /\ IF "initialize" \in tryBlock
                  THEN /\ pc' = "cleanup"
                       /\ result' = bookCatch(raised')
                       /\ UNCHANGED thrown
                  ELSE /\ pc' = "done"
                       /\ thrown' = TRUE
                       /\ UNCHANGED result
  /\ UNCHANGED <<params, rows, slotInfo, returned, tolerated,
                 registerClicks, waitlistClicks, orderClicks, orderMechanism,
                 orderSeveral, confirmed, registrationSuccess, cleanupCalls>>
  /\ UNCHANGED clickedRow
  /\ UNCHANGED nonBookVars

\* Variant: login() returns true once the credentials are submitted,
\* without looking at the verification.
loginReturns_unverified(outcome) == outcome # "throws"

\* What login() returns: true when the user menu is found (before or after
\* signing in), false when it is not or when an operation threw.
loginReturns(outcome) == outcome \in {"already", "signedIn"}

\* login(): true when the user menu is found before or after signing in,
\* false when the verification fails or anything inside throws (its own
\* catch).  book() returns "Login failed" on false.
login ==
  /\ pc = "login"
  /\ enter("login")
  /\ \E outcome \in {"already", "signedIn", "notVerified", "throws"} :
       LET loginSuccess == loginReturns(outcome) IN
       /\ stageLog' = Append(stageLog, [stage |-> "login",
                                         outcome |-> outcome])
       /\ raised' = IF outcome = "throws" THEN "login: timeout" ELSE raised
       /\ IF loginSuccess
          THEN /\ pc' = "navigateAndFilter"
               /\ UNCHANGED result
          ELSE /\ pc' = "cleanup"
               /\ result' = [result EXCEPT
                    !.message = "Login failed",
                    !.error = "Could not login to Surrey booking system"]
  /\ UNCHANGED <<params, rows, browser, context, page, open, slotInfo,
                 returned, thrown, tolerated, registerClicks, waitlistClicks,
                 orderClicks, orderMechanism, orderSeveral,
                 confirmed, registrationSuccess,
                 cleanupCalls>>
  /\ UNCHANGED clickedRow
  /\ UNCHANGED nonBookVars

\* Variant: setServiceFilter and setDateFilter have no catch of their own.
navigateAndFilterReturns_noInnerCatch(outcome) == outcome = "ok"

\* What navigateAndFilter() returns: false only when an operation outside
\* the filter steps threw.
navigateAndFilterReturns(outcome) == outcome # "throws"

\* navigateAndFilter(): setServiceFilter and setDateFilter swallow their
\* own exceptions, as does the wait for the filtered events; an exception
\* of the page navigation or of a plain wait makes it return false, and
\* book() then returns "Failed to apply filters".
navigateAndFilter ==
  /\ pc = "navigateAndFilter"
  /\ enter("navigateAndFilter")
  /\ \E outcome \in {"ok", "filterSwallowed", "throws"} :
       LET filterSuccess == navigateAndFilterReturns(outcome) IN
       /\ stageLog' = Append(stageLog, [stage |-> "navigateAndFilter",
                                         outcome |-> outcome])
       /\ raised' = IF outcome = "throws"
                    THEN "navigateAndFilter: timeout" ELSE raised
       /\ tolerated' = (tolerated \/ outcome = "filterSwallowed")
       /\ IF filterSuccess
          THEN /\ pc' = "findAndSelectSlot"
               /\ UNCHANGED result
          ELSE /\ pc' = "cleanup"
               /\ result' = [result EXCEPT
                    !.message = "Failed to apply filters",
                    !.error =
                      "Could not navigate to booking page or apply filters"]
  /\ UNCHANGED <<params, rows, browser, context, page, open, slotInfo,
                 returned, thrown, registerClicks, waitlistClicks,
                 orderClicks, orderMechanism, orderSeveral,
                 confirmed, registrationSuccess,
                 cleanupCalls>>
  /\ UNCHANGED clickedRow
  /\ UNCHANGED nonBookVars

RECURSIVE scanFrom_waitlistFirst(_, _, _)
\* Variant: the Waitlist button is looked at before the Register button.
scanFrom_waitlistFirst(rs, p, i) ==
  IF i > Len(rs)
  THEN [status |-> "not-found", buttonRef |-> "none", click |-> "none",
        row |-> 0]
  ELSE IF MATCH[p.req, rs[i].text]
       THEN IF rs[i].waitlist
            THEN IF p.preferWaitlist
                 THEN [status |-> "waitlist", buttonRef |-> "waitlist",
                       click |-> "waitlist", row |-> i]
                 ELSE [status |-> "waitlist", buttonRef |-> "none",
                       click |-> "none", row |-> i]
            ELSE IF rs[i].register
                 THEN [status |-> "available", buttonRef |-> "register",
                       click |-> "register", row |-> i]
                 ELSE scanFrom_waitlistFirst(rs, p, i + 1)
       ELSE scanFrom_waitlistFirst(rs, p, i + 1)

RECURSIVE scanFrom_noWaitlistClick(_, _, _)
\* Variant: the waitlist branch returns without clicking the button.
scanFrom_noWaitlistClick(rs, p, i) ==
  IF i > Len(rs)
  THEN [status |-> "not-found", buttonRef |-> "none", click |-> "none",
        row |-> 0]
  ELSE IF MATCH[p.req, rs[i].text]
       THEN IF rs[i].register
            THEN [status |-> "available", buttonRef |-> "register",
                  click |-> "register", row |-> i]
            ELSE IF rs[i].waitlist
                 THEN [status |-> "waitlist", buttonRef |-> "none",
                       click |-> "none", row |-> i]
                 ELSE scanFrom_noWaitlistClick(rs, p, i + 1)
       ELSE scanFrom_noWaitlistClick(rs, p, i + 1)

RECURSIVE scanFrom_anyRegister(_, _, _)
\* Variant: when no row matches, the first Register button of the table is
\* clicked.
scanFrom_anyRegister(rs, p, i) ==
  IF i > Len(rs)
  THEN IF \E j \in DOMAIN rs : rs[j].register
       THEN [status |-> "available", buttonRef |-> "register",
             click |-> "register",
             row |-> CHOOSE j \in DOMAIN rs : rs[j].register]
       ELSE [status |-> "not-found", buttonRef |-> "none", click |-> "none",
             row |-> 0]
  ELSE IF MATCH[p.req, rs[i].text]
       THEN IF rs[i].register
            THEN [status |-> "available", buttonRef |-> "register",
                  click |-> "register", row |-> i]
            ELSE IF rs[i].waitlist
                 THEN IF p.preferWaitlist
                      THEN [status |-> "waitlist", buttonRef |-> "waitlist",
                            click |-> "waitlist", row |-> i]
                      ELSE [status |-> "waitlist", buttonRef |-> "none",
                            click |-> "none", row |-> i]
                 ELSE scanFrom_anyRegister(rs, p, i + 1)
       ELSE scanFrom_anyRegister(rs, p, i + 1)

RECURSIVE scanFrom_lastMatching(_, _, _)
\* Variant: the loop goes on after a matching row with a button, and the
\* last such row is the one acted on.
scanFrom_lastMatching(rs, p, i) ==
  IF i > Len(rs)
  THEN [status |-> "not-found", buttonRef |-> "none", click |-> "none",
        row |-> 0]
  ELSE LET rest == scanFrom_lastMatching(rs, p, i + 1) IN
       IF rest.status # "not-found" THEN rest
       ELSE IF MATCH[p.req, rs[i].text]
            THEN IF rs[i].register
                 THEN [status |-> "available", buttonRef |-> "register",
                       click |-> "register", row |-> i]
                 ELSE IF rs[i].waitlist
                      THEN IF p.preferWaitlist
                           THEN [status |-> "waitlist",
                                 buttonRef |-> "waitlist",
                                 click |-> "waitlist", row |-> i]
                           ELSE [status |-> "waitlist", buttonRef |-> "none",
                                 click |-> "none", row |-> i]
                      ELSE rest
            ELSE rest

RECURSIVE scanFrom(_, _, _)
\* The loop over eventRows from row i on: the SlotInfo it returns and the
\* button it clicks on the way, when no operation throws.
scanFrom(rs, p, i) ==
  IF i > Len(rs)
  THEN [status |-> "not-found", buttonRef |-> "none", click |-> "none",
        row |-> 0]
  ELSE IF MATCH[p.req, rs[i].text]
       THEN IF rs[i].register
            THEN [status |-> "available", buttonRef |-> "register",
                  click |-> "register", row |-> i]
            ELSE IF rs[i].waitlist
                 THEN IF p.preferWaitlist
                      THEN [status |-> "waitlist", buttonRef |-> "waitlist",
                            click |-> "waitlist", row |-> i]
                      ELSE [status |-> "waitlist", buttonRef |-> "none",
                            click |-> "none", row |-> i]
                 ELSE scanFrom(rs, p, i + 1)
       ELSE scanFrom(rs, p, i + 1)

\* The scan with the exception an operation of it may throw: "scan" before
\* any button is acted on, "click" in the operations up to and including
\* the click (no click is made), "afterClick" in the wait that follows the
\* click.  catch (error) returns not-found.
scanOutcome(rs, p, throwAt) ==
  LET s == scanFrom(rs, p, 1) IN
  CASE throwAt = "scan" ->
         [status |-> "not-found", buttonRef |-> "none", click |-> "none",
          row |-> 0, threw |-> TRUE]
    [] throwAt = "click" /\ s.click # "none" ->
         [status |-> "not-found", buttonRef |-> "none", click |-> "none",
          row |-> 0, threw |-> TRUE]
    [] throwAt = "afterClick" /\ s.click # "none" ->
         [status |-> "not-found", buttonRef |-> "none", click |-> s.click,
          row |-> s.row, threw |-> TRUE]
    [] OTHER ->
         [status |-> s.status, buttonRef |-> s.buttonRef, click |-> s.click,
          row |-> s.row, threw |-> FALSE]

\* book(): which branch follows findAndSelectSlot.
afterSlot(info, p) ==
  IF info.status = "not-found" THEN "not-found"
  ELSE IF info.status = "full" /\ ~p.preferWaitlist THEN "full"
  ELSE "register"

\* findAndSelectSlot(params) and the branches of book() on its result.
findAndSelectSlot ==
  /\ pc = "findAndSelectSlot"
  /\ enter("findAndSelectSlot")
  /\ \E rs \in RowLists :
     /\ rows' = rs
     /\ \E throwAt \in {"none", "scan", "click", "afterClick"} :
       LET o == scanOutcome(rs, params, throwAt)
           info == [status |-> o.status, buttonRef |-> o.buttonRef]
           branch == afterSlot(info, params) IN
       /\ slotInfo' = info
       /\ stageLog' = Append(stageLog, [stage |-> "findAndSelectSlot",
                                         outcome |-> o.status])
       /\ registerClicks' = registerClicks + IF o.click = "register" THEN 1 ELSE 0
       /\ waitlistClicks' = waitlistClicks + IF o.click = "waitlist" THEN 1 ELSE 0
       /\ clickedRow' = IF o.click # "none" THEN o.row ELSE clickedRow
       /\ raised' = IF o.threw THEN "findAndSelectSlot: timeout" ELSE raised
       /\ CASE branch = "not-found" ->
                 /\ pc' = "cleanup"
                 /\ result' = [result EXCEPT
                      !.message = "Slot not found",
                      !.error = "Could not find slot"]
            [] branch = "full" ->
                 /\ pc' = "cleanup"
                 /\ result' = [result EXCEPT
                      !.message = "Slot is full",
                      !.error =
                        "The requested slot is full and waitlist is not enabled"]
            [] OTHER ->
                 /\ pc' = "completeRegistration"
                 /\ UNCHANGED result
  /\ UNCHANGED <<params, browser, context, page, open, returned, thrown,
                 tolerated, orderClicks, orderMechanism, orderSeveral,
                 confirmed,
                 registrationSuccess, cleanupCalls>>
  /\ UNCHANGED nonBookVars

\* The attempts to place the order: button, input button, link, iframe
\* button, role lookup.
NumMechanisms == 5

RECURSIVE tryFrom_unguarded(_, _, _)
\* Variant: an attempt is made whether or not the order is placed already.
tryFrom_unguarded(available, m, orderPlaced) ==
  IF m > NumMechanisms THEN <<>>
  ELSE IF m \in available
       THEN <<m>> \o tryFrom_unguarded(available, m + 1, TRUE)
       ELSE tryFrom_unguarded(available, m + 1, orderPlaced)

RECURSIVE tryFrom(_, _, _)
\* Try 1 to Try 5 from attempt m on, in this order: the attempts that
\* click.  Each after the first is made only if (!orderPlaced), and an
\* attempt whose control is there clicks it and sets orderPlaced.
tryFrom(available, m, orderPlaced) ==
  IF m > NumMechanisms THEN <<>>
  ELSE IF ~orderPlaced /\ m \in available
       THEN <<m>> \o tryFrom(available, m + 1, TRUE)
       ELSE tryFrom(available, m + 1, orderPlaced)

\* The attempt that clicks: each is tried only while orderPlaced is false.
placingMechanism(available) ==
  IF available = {} THEN 0
  ELSE CHOOSE m \in available : \A n \in available : m <= n

\* The value completeRegistration returns when nothing throws.
registrationVerdict(orderPlaced, marker) ==
  IF marker THEN TRUE
  ELSE IF orderPlaced THEN TRUE
  ELSE TRUE

\* completeRegistration() and the rest of book().  available: the attempts
\* whose control is present; marker: a success indicator is on the page;
\* throwAt: an operation throws before the order placement, after it, or
\* not at all (catch returns false).  The controls are looked up only when
\* nothing threw before, and the marker only when nothing threw at all.
completeRegistration ==
  /\ pc = "completeRegistration"
  /\ enter("completeRegistration")
  /\ pc' = "cleanup"
  /\ \E throwAt \in {"none", "before", "after"} :
       /\ raised' = IF throwAt # "none"
                    THEN "completeRegistration: timeout" ELSE raised
       /\ \E swallowed \in BOOLEAN :
            /\ tolerated' = (tolerated \/ swallowed)
            /\ \E marker \in IF throwAt = "none" THEN BOOLEAN ELSE {FALSE} :
                 /\ confirmed' = (throwAt = "none" /\ marker)
                 /\ \E available \in IF throwAt = "before" THEN {{}}
                                      ELSE SUBSET (1..NumMechanisms) :
                      LET m == IF throwAt = "before" THEN 0
                               ELSE placingMechanism(available)
                          orderPlaced == m # 0
                          success ==
                            IF throwAt = "none"
                            THEN registrationVerdict(orderPlaced, marker)
                            ELSE FALSE IN
                      /\ orderMechanism' = m
                      /\ orderSeveral' =
                           (throwAt # "before" /\ Cardinality(available) > 1)
                      /\ stageLog' =
                           Append(stageLog, [stage |-> "completeRegistration",
                                             outcome |-> IF success THEN "true"
                                                         ELSE "false"])
                      /\ orderClicks' = orderClicks +
                           IF throwAt = "before" THEN 0
                           ELSE Len(tryFrom(available, 1, FALSE))
                      /\ registrationSuccess' = success
                      /\ IF success
                         THEN result' = [result EXCEPT
                                !.success = TRUE,
                                !.waitlisted = (slotInfo.status = "waitlist"),
                                !.message = IF slotInfo.status = "waitlist"
                                            THEN "Successfully added to waitlist"
                                            ELSE "Booking completed successfully"]
                         ELSE result' = [result EXCEPT
                                !.message = "Registration failed",
                                !.error =
                                  "Could not complete the registration process"]
  /\ UNCHANGED <<params, rows, browser, context, page, open, slotInfo,
                 returned, thrown, registerClicks, waitlistClicks,
                 cleanupCalls>>
  /\ UNCHANGED clickedRow
  /\ UNCHANGED nonBookVars

\* Variant: the three close calls are all guarded by this.page.
closeAll_pageGuard(o, hasPage, hasContext, hasBrowser) ==
  IF hasPage THEN {} ELSE o

\* What cleanup() leaves open: it closes the page, the context and the
\* browser whose field is set; closing a context closes its pages, closing
\* a browser closes everything.
closeAll(o, hasPage, hasContext, hasBrowser) ==
  LET afterPage == IF hasPage THEN o \ {"page"} ELSE o
      afterContext ==
        IF hasContext THEN afterPage \ {"page", "context"} ELSE afterPage
  IN IF hasBrowser THEN {} ELSE afterContext

\* Variant: a close() call of cleanup() never resolves, and book() does not
\* return.
cleanup_closeNeverResolves ==
  /\ pc = "cleanup"
  /\ cleanupCalls' = cleanupCalls + 1
  /\ pc' = "closing"
  /\ UNCHANGED <<params, rows, browser, context, page, open, slotInfo,
                 result, returned, thrown, raised, tolerated, registerClicks,
                 waitlistClicks, orderClicks, orderMechanism, orderSeveral,
                 confirmed,
                 registrationSuccess, stagesRun, lateAction, stageLog>>
  /\ UNCHANGED clickedRow
  /\ UNCHANGED nonBookVars

\* finally { await this.cleanup(); } and the return of book().
cleanup ==
  /\ pc = "cleanup"
  /\ cleanupCalls' = cleanupCalls + 1
  /\ open' = closeAll(open, page, context, browser)
  /\ page' = FALSE /\ context' = FALSE /\ browser' = FALSE
  /\ returned' = returned + 1
  /\ pc' = "done"
  /\ orderSeveral' = FALSE
  /\ UNCHANGED <<params, rows, slotInfo, result, thrown, raised, tolerated,
                 registerClicks, waitlistClicks, orderClicks, orderMechanism,
                 confirmed, registrationSuccess, stagesRun, lateAction,
                 stageLog>>
  /\ UNCHANGED clickedRow
  /\ UNCHANGED nonBookVars

NextBook ==
  \/ initialize
  \/ login
  \/ navigateAndFilter
  \/ findAndSelectSlot
  \/ completeRegistration
  \/ cleanup

SpecBook == InitBook /\ [][NextBook]_vars

\* book() with its scheduling: every awaited browser operation completes or
\* times out (setDefaultTimeout, setDefaultNavigationTimeout and the
\* explicit timeouts), so a stage that is running ends.
SpecBookLive == InitBook /\ [][NextBook]_vars /\ WF_vars(NextBook)

(***************************************************************************)
(* Properties of book().                                                   *)
(***************************************************************************)
\* Index of the first row the loop takes as a match, 0 if there is none.
firstMatching(rs, p) ==
  IF \E i \in DOMAIN rs : MATCH[p.req, rs[i].text]
  THEN CHOOSE i \in DOMAIN rs :
         /\ MATCH[p.req, rs[i].text]
         /\ \A j \in 1..(i - 1) : ~MATCH[p.req, rs[j].text]
  ELSE 0

scanRan == "findAndSelectSlot" \in stagesRun

scanThrew == raised = "findAndSelectSlot: timeout"

\* C1: with preferWaitlist false, when the first matching row offers only a
\* Waitlist button (and no operation of the scan throws), book() clicks no
\* control, does not run completeRegistration, and returns success=false
\* with message "Slot is full".
C1_FullSlotIsTerminal ==
  LET i == firstMatching(rows, params) IN
  (/\ pc = "done"
   /\ scanRan /\ ~scanThrew
   /\ ~params.preferWaitlist
   /\ i # 0 /\ rows[i].waitlist /\ ~rows[i].register)
  => /\ registerClicks = 0 /\ waitlistClicks = 0 /\ orderClicks = 0
     /\ "completeRegistration" \notin stagesRun
     /\ result.success = FALSE
     /\ result.message = "Slot is full"

\* C2: in every call of book(), whatever the stages do, cleanup() is called
\* exactly once, no stage acts after it, and once book() has returned no
\* page, context or browser of the call is open and no field refers to one.
C2_SessionReleasedOnce ==
  /\ cleanupCalls <= 1
  /\ ~lateAction
  /\ pc \in {"cleanup"} => cleanupCalls = 0
  /\ pc = "done" =>
       /\ cleanupCalls = 1
       /\ open = {}
       /\ ~browser /\ ~context /\ ~page

\* C2 witness: initialize() failed in newPage with the browser and the
\* context already open, and the call is over.
C2_Witness ==
  /\ pc = "done"
  /\ raised = "initialize: newPage failed"
  /\ cleanupCalls = 1
  /\ open = {}

\* C3 as stated: book() returns exactly one result and never throws, and
\* an exception raised in any stage gives success=false with the exception
\* message in the error field.
C3_ExceptionMessageInError ==
  /\ ~thrown
  /\ returned <= 1
  /\ pc = "done" => returned = 1
  /\ (pc = "done" /\ raised # "") =>
       (result.success = FALSE /\ result.error = raised)

\* The error text book() gives for the stage whose exception was raised.
errorTextFor(msg) ==
  CASE msg = "login: timeout" -> "Could not login to Surrey booking system"
    [] msg = "navigateAndFilter: timeout" ->
         "Could not navigate to booking page or apply filters"
    [] msg = "findAndSelectSlot: timeout" -> "Could not find slot"
    [] msg = "completeRegistration: timeout" ->
         "Could not complete the registration process"
    [] OTHER -> msg

\* C3 amended: book() returns exactly one result and never throws; an
\* exception that ends a stage gives success=false; the error field holds
\* the exception message when the exception reaches the catch of book()
\* (an exception of initialize) and the failed stage's fixed error text
\* when the stage caught it itself.
C3_ExceptionsBecomeFailures ==
  /\ ~thrown
  /\ returned <= 1
  /\ pc = "done" => returned = 1
  /\ (pc = "done" /\ raised # "") =>
       (result.success = FALSE /\ result.error = errorTextFor(raised))

\* C3 witness: one call ended by an exception of initialize, whose message
\* is in the error field.
C3_Witness ==
  /\ pc = "done"
  /\ returned = 1
  /\ raised = "initialize: launch failed"
  /\ result.error = raised

C11_NoMatchIsNotFound ==
  (scanRan /\ \A i \in DOMAIN rows : ~MATCH[params.req, rows[i].text])
  => /\ slotInfo.status = "not-found"
     /\ registerClicks = 0 /\ waitlistClicks = 0 /\ orderClicks = 0
     /\ "completeRegistration" \notin stagesRun
     /\ pc = "done" =>
          /\ returned = 1
          /\ result.success = FALSE
          /\ result.message = "Slot not found"

\* C11 witness: the table's two rows both have a Register button, one is
\* for another time and the other is too short; nothing was clicked and
\* the call returned "Slot not found".
C11_Witness ==
  /\ pc = "done"
  /\ params.req = 1
  /\ Len(rows) = 2
  /\ rows[1].text = 2 /\ rows[1].register
  /\ rows[2].text = 3 /\ rows[2].register
  /\ ~scanThrew
  /\ slotInfo.status = "not-found"
  /\ registerClicks = 0
  /\ result.message = "Slot not found"

\* How the calls of a stage ended, and how many there were.
outcomesOf(stage) ==
  {stageLog[k].outcome :
     k \in {j \in DOMAIN stageLog : stageLog[j].stage = stage}}

callsOf(stage) ==
  Cardinality({k \in DOMAIN stageLog : stageLog[k].stage = stage})

\* C12: when completeRegistration ran and none of the order-placement
\* attempts clicked a control and no confirmation marker was found, the
\* call's result is a failure; success without a confirmation marker is
\* reported only when a placement click was made.
C12_NoPlacementNoMarkerFails ==
  (/\ pc = "done"
   /\ "completeRegistration" \in stagesRun
   /\ orderClicks = 0
   /\ ~confirmed)
  => result.success = FALSE

\* C16: when login fails (the user menu is not found after signing in, or
\* an operation inside login throws), book() returns success=false with
\* message "Login failed", calls login only once, and runs no filter, scan,
\* claim or finalization.
C16_LoginFailureEndsTheAttempt ==
  (outcomesOf("login") \cap {"notVerified", "throws"} # {})
  => /\ callsOf("login") = 1
     /\ callsOf("navigateAndFilter") = 0
     /\ callsOf("findAndSelectSlot") = 0
     /\ callsOf("completeRegistration") = 0
     /\ registerClicks = 0 /\ waitlistClicks = 0 /\ orderClicks = 0
     /\ result.success = FALSE
     /\ result.message = "Login failed"
     /\ pc \in {"cleanup", "done"}
     /\ pc = "done" => returned = 1

\* C16 witness: the user menu was not found after signing in, and the call
\* returned "Login failed" after two stages.
C16_Witness ==
  /\ pc = "done"
  /\ outcomesOf("login") = {"notVerified"}
  /\ Len(stageLog) = 2
  /\ returned = 1
  /\ result.message = "Login failed"

\* C17 as stated: when initialize throws, book() runs none of the later
\* stages and returns success=false with message "session initialization
\* failed".
C17_InitFailureMessage ==
  (outcomesOf("initialize") \cap {"launch", "newContext", "newPage"} # {})
  => /\ Len(stageLog) = 1
     /\ pc = "done" =>
          /\ returned = 1
          /\ result.success = FALSE
          /\ result.message = "session initialization failed"

\* C17 amended: when initialize throws, book() runs none of the later
\* stages, makes no click, does not throw, and returns success=false with
\* message "Booking failed" and the exception's message as error.
C17_InitFailureIsBookingFailed ==
  (outcomesOf("initialize") \cap {"launch", "newContext", "newPage"} # {})
  => /\ Len(stageLog) = 1
     /\ registerClicks = 0 /\ waitlistClicks = 0 /\ orderClicks = 0
     /\ ~thrown
     /\ pc \in {"cleanup", "done"}
     /\ result.success = FALSE
     /\ result.message = "Booking failed"
     /\ result.error = raised
     /\ pc = "done" => returned = 1

\* C17 witness: newContext failed after the browser was launched, and the
\* call returned "Booking failed".
C17_Witness ==
  /\ pc = "done"
  /\ outcomesOf("initialize") = {"newContext"}
  /\ returned = 1
  /\ result.message = "Booking failed"
  /\ result.error = "initialize: newContext failed"

\* C18 as stated: whatever fails inside navigateAndFilter (the page
\* navigation or a filter step), the attempt is not aborted:
\* findAndSelectSlot is still called.
C18_FilterFailureNeverAborts ==
  (/\ pc = "done"
   /\ outcomesOf("navigateAndFilter") \cap {"filterSwallowed", "throws"} # {})
  => callsOf("findAndSelectSlot") = 1

\* C18 amended: a failure inside the activity or date filter step does not
\* abort the attempt (findAndSelectSlot is called next); a failure of the
\* page navigation or of another operation of navigateAndFilter itself
\* aborts it with "Failed to apply filters" and no scan.
C18_FilterStepFailureDoesNotAbort ==
  /\ "filterSwallowed" \in outcomesOf("navigateAndFilter") =>
       /\ pc # "cleanup" \/ callsOf("findAndSelectSlot") = 1
       /\ pc = "done" => callsOf("findAndSelectSlot") = 1
       /\ result.message # "Failed to apply filters"
  /\ "throws" \in outcomesOf("navigateAndFilter") =>
       /\ callsOf("findAndSelectSlot") = 0
       /\ registerClicks = 0 /\ waitlistClicks = 0
       /\ result.success = FALSE
       /\ result.message = "Failed to apply filters"

\* C18 witness: a filter step failed, the scan ran all the same and found
\* the slot available.
C18_Witness ==
  /\ pc = "done"
  /\ outcomesOf("navigateAndFilter") = {"filterSwallowed"}
  /\ callsOf("findAndSelectSlot") = 1
  /\ slotInfo.status = "available"
  /\ registerClicks = 1

\* The status and the click one row gives when it is the row acted on.
statusOfRow(r, p) ==
  IF r.register THEN "available"
  ELSE IF r.waitlist THEN "waitlist"
  ELSE "not-found"

clickOfRow(r, p) ==
  IF r.register THEN "register"
  ELSE IF r.waitlist /\ p.preferWaitlist THEN "waitlist"
  ELSE "none"

\* Index of the first matching row that has a Register or a Waitlist
\* button, 0 if there is none.
firstOffering(rs, p) ==
  LET offering == {i \in DOMAIN rs : /\ MATCH[p.req, rs[i].text]
                                      /\ (rs[i].register \/ rs[i].waitlist)}
  IN IF offering = {} THEN 0
     ELSE CHOOSE i \in offering : \A j \in offering : i <= j

\* C29 as stated: among several matching rows, findAndSelectSlot acts on
\* the first matching row in document order and decides the status from
\* that row alone; no button of a later matching row is clicked.
C29_FirstMatchingRowDecides ==
  LET i == firstMatching(rows, params) IN
  (scanRan /\ i # 0)
  => /\ clickedRow \in {0, i}
     /\ ~scanThrew => slotInfo.status = statusOfRow(rows[i], params)

\* C29 amended: among several matching rows, findAndSelectSlot acts on the
\* first matching row in document order that has a Register or a Waitlist
\* button (a matching row with neither is passed over) and decides the
\* status from that row alone; no button of another row is clicked, and
\* with no such row the status is not-found and nothing is clicked.
C29_FirstOfferingRowDecides ==
  LET i == firstOffering(rows, params) IN
  scanRan
  => /\ clickedRow \in {0, i}
     /\ registerClicks + waitlistClicks <= 1
     /\ ~scanThrew =>
          IF i = 0
          THEN slotInfo.status = "not-found" /\ clickedRow = 0
          ELSE /\ slotInfo.status = statusOfRow(rows[i], params)
               /\ clickedRow =
                    IF clickOfRow(rows[i], params) = "none" THEN 0 ELSE i
               /\ registerClicks =
                    IF clickOfRow(rows[i], params) = "register" THEN 1 ELSE 0
               /\ waitlistClicks =
                    IF clickOfRow(rows[i], params) = "waitlist" THEN 1 ELSE 0

\* C29 witness: two rows match; the first has only a Waitlist button, which
\* was clicked, and the Register button of the second was not.
C29_Witness ==
  /\ scanRan /\ ~scanThrew
  /\ params.preferWaitlist
  /\ Len(rows) = 2
  /\ MATCH[params.req, rows[1].text] /\ MATCH[params.req, rows[2].text]
  /\ rows[1].waitlist /\ ~rows[1].register
  /\ rows[2].register
  /\ clickedRow = 1
  /\ waitlistClicks = 1 /\ registerClicks = 0
  /\ slotInfo.status = "waitlist"

\* The stages of book() in the order it calls them, and the outcomes of
\* each on which book() goes on to the next.
BOOK_STAGES ==
  <<"initialize", "login", "navigateAndFilter", "findAndSelectSlot",
    "completeRegistration">>

goesOn(stage) ==
  CASE stage = "initialize" -> {"ok"}
    [] stage = "login" -> {"already", "signedIn"}
    [] stage = "navigateAndFilter" -> {"ok", "filterSwallowed"}
    [] stage = "findAndSelectSlot" -> {"available", "waitlist"}
    [] OTHER -> {}

\* The stages called so far are the first stages of book(), each called
\* once and, after the first, only when the one before it succeeded.
stagesInOrder ==
  /\ Len(stageLog) <= Len(BOOK_STAGES)
  /\ \A k \in DOMAIN stageLog :
       /\ stageLog[k].stage = BOOK_STAGES[k]
       /\ k > 1 => stageLog[k - 1].outcome \in goesOn(BOOK_STAGES[k - 1])

\* C30: within one call of book() the stages run strictly in order, each
\* only after the one before it succeeded; no Register or Waitlist button
\* is clicked unless login returned true before, and no order-placement
\* control is clicked unless a Register or Waitlist button was clicked
\* before.
C30_StagesStrictlyInOrder ==
  /\ stagesInOrder
  /\ registerClicks + waitlistClicks > 0 =>
       outcomesOf("login") \cap goesOn("login") # {}
  /\ orderClicks > 0 => registerClicks + waitlistClicks > 0

\* C31: order placement tries its mechanisms in a fixed order and stops at
\* the first that clicks: in one call of book() at most one order-placement
\* control is clicked, whatever set of mechanisms has its control there,
\* and the click is that of the mechanism recorded as the placing one.
C31_AtMostOnePlacementClick ==
  /\ orderClicks <= 1
  /\ orderClicks = 1 <=> orderMechanism # 0
  /\ orderSeveral => orderClicks = 1

\* C31 witness: completeRegistration has returned and the page is still
\* open; the page button was missing, the input button and at least one
\* later mechanism had their control there, and one click was made, on the
\* input button.
C31_Witness ==
  /\ pc = "cleanup"
  /\ callsOf("completeRegistration") = 1
  /\ orderSeveral
  /\ orderMechanism = 2
  /\ orderClicks = 1

\* C36: book() returns success=true only when a Register or a Waitlist
\* control of a row was actually clicked during the attempt.
C36_SuccessOnlyAfterRowClick ==
  (returned = 1 /\ result.success) => registerClicks + waitlistClicks >= 1

\* C37: a result with waitlisted=true always has success=true, and is
\* returned only for a request made with preferWaitlist=true.
C37_WaitlistedOnlyWhenPreferred ==
  (returned = 1 /\ result.waitlisted) =>
    (result.success /\ params.preferWaitlist)

\* The messages of a BookingResult that book() returns.
SuccessMessages ==
  {"Booking completed successfully", "Successfully added to waitlist"}

FailureMessages ==
  {"Login failed", "Failed to apply filters", "Slot not found",
   "Slot is full", "Registration failed", "Booking failed"}

\* book() has returned one result, which is a success (waitlisted or not)
\* or a failure.
terminalOutcome ==
  /\ pc = "done"
  /\ returned = 1
  /\ ~thrown
  /\ IF result.success
     THEN result.message \in SuccessMessages
     ELSE result.message \in FailureMessages /\ ~result.waitlisted

\* C22: every call of book() terminates: when each browser operation
\* completes or times out, book() eventually returns one result, a success,
\* a waitlisted success or a failure, and no stage waits for ever.
C22_AttemptTerminates == <>terminalOutcome

\* C22 witness: operations timed out in the last stage (the order
\* placement) and book() returned "Registration failed".
C22_Witness ==
  /\ terminalOutcome
  /\ raised = "completeRegistration: timeout"
  /\ callsOf("completeRegistration") = 1
  /\ result.message = "Registration failed"

(***************************************************************************)
(* config.ts: validateBookingParams.                                       *)
(***************************************************************************)
DIGITS == {"0", "1", "2", "3", "4", "5", "6", "7", "8", "9"}

\* /^\d{2}:\d{2}\s*(am|pm)$/i
isValidTimeFormat(time) ==
  /\ Len(time) >= 7
  /\ time[1] \in DIGITS /\ time[2] \in DIGITS
  /\ time[3] = ":"
  /\ time[4] \in DIGITS /\ time[5] \in DIGITS
  /\ \A k \in 6..(Len(time) - 2) : time[k] \in WHITESPACE
  /\ toLowerCase(SubSeq(time, Len(time) - 1, Len(time)))
       \in {<<"a", "m">>, <<"p", "m">>}

\* The fields validateBookingParams reports an error for.  The date of a
\* request is given apart, as dateOk: it is set and has the form
\* DD-MMM-YYYY.
validateBookingParams(p) ==
  {f \in {"activity", "date", "time", "location"} :
     CASE f = "activity" -> p.activity = <<>>
       [] f = "date" -> ~p.dateOk
       [] f = "time" -> p.time = <<>> \/ ~isValidTimeFormat(p.time)
       [] OTHER -> p.location = <<>>}

(***************************************************************************)
(* scheduler.ts: instants, the rule catalog and getNextCronTrigger.        *)
(* cronMinute, cronHour and cronDow are the fields of cronExpression;      *)
(* targetDow is the weekday of the date-fns function targetDay calls.      *)
(***************************************************************************)
SCHEDULES ==
  <<
     [id |-> "friday-monday-cloverdale",
      time |-> <<"6", ":", "3", "0", " ", "a", "m">>,
      cronMinute |-> 28, cronHour |-> 18, cronDow |-> 5,
      cronDay |-> 5, releaseHour |-> 18, releaseMinute |-> 30,
      targetDow |-> 1, testOnly |-> FALSE],
     [id |-> "saturday-tuesday-guildford",
      time |-> <<"7", ":", "0", "0", " ", "P", "M">>,
      cronMinute |-> 58, cronHour |-> 18, cronDow |-> 6,
      cronDay |-> 6, releaseHour |-> 19, releaseMinute |-> 0,
      targetDow |-> 2, testOnly |-> FALSE],
     [id |-> "sunday-wednesday-fraser",
      time |-> <<"6", ":", "1", "5", " ", "a", "m">>,
      cronMinute |-> 13, cronHour |-> 18, cronDow |-> 0,
      cronDay |-> 0, releaseHour |-> 18, releaseMinute |-> 15,
      targetDow |-> 3, testOnly |-> FALSE],
     [id |-> "monday-thursday-guildford",
      time |-> <<"7", ":", "0", "0", " ", "a", "m">>,
      cronMinute |-> 58, cronHour |-> 18, cronDow |-> 1,
      cronDay |-> 1, releaseHour |-> 19, releaseMinute |-> 0,
      targetDow |-> 4, testOnly |-> FALSE],
     [id |-> "wednesday-saturday-fraser",
      time |-> <<"1", "0", ":", "0", "0", " ", "a", "m">>,
      cronMinute |-> 58, cronHour |-> 9, cronDow |-> 3,
      cronDay |-> 3, releaseHour |-> 10, releaseMinute |-> 0,
      targetDow |-> 6, testOnly |-> FALSE],
     [id |-> "thursday-sunday-fraser",
      time |-> <<"1", "0", ":", "0", "0", " ", "a", "m">>,
      cronMinute |-> 58, cronHour |-> 9, cronDow |-> 4,
      cronDay |-> 4, releaseHour |-> 10, releaseMinute |-> 0,
      targetDow |-> 0, testOnly |-> FALSE],
     [id |-> "wednesday-saturday-guildford",
      time |-> <<"6", ":", "3", "0", " ", "p", "m">>,
      cronMinute |-> 59, cronHour |-> 17, cronDow |-> 3,
      cronDay |-> 3, releaseHour |-> 18, releaseMinute |-> 0,
      targetDow |-> 6, testOnly |-> FALSE],
     [id |-> "wednesday-saturday-fraser-basketball",
      time |-> <<"0", "3", ":", "1", "5", " ", "p", "m">>,
      cronMinute |-> 49, cronHour |-> 17, cronDow |-> 3,
      cronDay |-> 3, releaseHour |-> 17, releaseMinute |-> 49,
      targetDow |-> 6, testOnly |-> FALSE]
  >>

ScheduleIds == 1..Len(SCHEDULES)

\* Values of ScheduleConfig that are not in SCHEDULES: a rule with
\* testOnly set, a rule whose cronDay is not a weekday number, a rule
\* whose cronExpression has a minute field of 61.
TEST_RULE ==
  [id |-> "test-tuesday-friday",
   time |-> <<"0", "8", ":", "1", "5", " ", "a", "m">>,
   cronMinute |-> 0, cronHour |-> 12, cronDow |-> 2,
   cronDay |-> 2, releaseHour |-> 12, releaseMinute |-> 2,
   targetDow |-> 5, testOnly |-> TRUE]

BAD_DAY_RULE ==
  [id |-> "bad-day",
   time |-> <<"0", "8", ":", "1", "5", " ", "a", "m">>,
   cronMinute |-> 28, cronHour |-> 18, cronDow |-> 5,
   cronDay |-> 9, releaseHour |-> 18, releaseMinute |-> 30,
   targetDow |-> 1, testOnly |-> FALSE]

BAD_CRON_RULE ==
  [id |-> "bad-cron",
   time |-> <<"0", "8", ":", "1", "5", " ", "a", "m">>,
   cronMinute |-> 61, cronHour |-> 18, cronDow |-> 5,
   cronDay |-> 5, releaseHour |-> 18, releaseMinute |-> 30,
   targetDow |-> 1, testOnly |-> FALSE]

\* The catalogs a process is built with: SCHEDULES as it stands, or with
\* one more rule appended.
Catalogs ==
  {SCHEDULES} \cup
    {Append(SCHEDULES, r) : r \in {TEST_RULE, BAD_DAY_RULE, BAD_CRON_RULE}}

\* "Cron runs 2 min before"
LeadMinutes == 2

\* date-fns accessors and setters on an instant of wall-clock time
getDay(t) == (t \div 86400) % 7

getHours(t) == (t % 86400) \div 3600

getMinutes(t) == (t % 3600) \div 60

getSeconds(t) == t % 60

\* setHours and setMinutes replace one field and keep the others, the
\* seconds included; a value outside the field's range carries over.
setHours(t, h) == t + (h - getHours(t)) * 3600

setMinutes(t, m) == t + (m - getMinutes(t)) * 60

addDays(t, n) == t + n * 86400

isBefore(a, b) == a < b

getNextCronTrigger(sched, t) ==
  LET currentDay == getDay(t)
      diff == sched.cronDay - currentDay
      daysUntil0 == IF diff < 0 THEN diff + 7 ELSE diff
      triggerTime ==
        setMinutes(setHours(t, sched.releaseHour),
                   sched.releaseMinute - LeadMinutes)
      daysUntil ==
        IF daysUntil0 = 0 /\ isBefore(triggerTime, t) THEN 7 ELSE daysUntil0
      triggerDate == addDays(t, daysUntil)
  IN setMinutes(setHours(triggerDate, sched.releaseHour),
                sched.releaseMinute - LeadMinutes)

\* The instants a computation is given: every minute of a week, on the
\* minute and half a minute into it.
SecondChoices == {0, 30}

Instants ==
  {d * 86400 + h * 3600 + m * 60 + sec :
     d \in 0..6, h \in 0..23, m \in 0..59, sec \in SecondChoices}

InitCron ==
  /\ schedule \in ScheduleIds
  /\ now \in Instants
  /\ nextTrigger = 0
  /\ secondTrigger = 0
  /\ cronPc = "start"
  /\ later = 0 /\ target = 0 /\ laterTarget = 0 /\ laterTrigger = 0
  /\ IdleBook /\ IdleSched /\ IdleCli /\ IdleRun /\ IdleConc /\ IdleBatch
  /\ IdleValid

\* A caller (listSchedules, startScheduler, displayNextScheduleStatus)
\* computes the next trigger of a rule at now.
computeNextTrigger ==
  /\ cronPc = "start"
  /\ nextTrigger' = getNextCronTrigger(SCHEDULES[schedule], now)
  /\ cronPc' = "once"
  /\ UNCHANGED <<schedule, now, secondTrigger, later, target, laterTarget,
                 laterTrigger>>
  /\ UNCHANGED <<bookVars, schedVars, cliVars, runVars, concVars, batchVars,
                 validVars>>

\* The computation is made again at the instant it returned.
computeTriggerAgain ==
  /\ cronPc = "once"
  /\ secondTrigger' = getNextCronTrigger(SCHEDULES[schedule], nextTrigger)
  /\ cronPc' = "twice"
  /\ UNCHANGED <<schedule, now, nextTrigger, later, target, laterTarget,
                 laterTrigger>>
  /\ UNCHANGED <<bookVars, schedVars, cliVars, runVars, concVars, batchVars,
                 validVars>>

NextCron ==
  \/ computeNextTrigger
  \/ computeTriggerAgain

SpecCron == InitCron /\ [][NextCron]_vars

(***************************************************************************)
(* Properties of getNextCronTrigger.                                       *)
(***************************************************************************)
\* now is on the rule's trigger day, exactly at release time minus the lead.
atTriggerInstant(sched, t) ==
  /\ getDay(t) = sched.cronDay
  /\ getHours(t) * 60 + getMinutes(t) =
       sched.releaseHour * 60 + sched.releaseMinute - LeadMinutes
  /\ getSeconds(t) = 0

\* C4: for every rule and every instant now, getNextCronTrigger(rule, now)
\* is strictly later than now.
C4_TriggerStrictlyLater ==
  cronPc \in {"once", "twice"} => nextTrigger > now

\* C5: when now is on the trigger day exactly at the lead-adjusted release
\* time, getNextCronTrigger returns the instant exactly 7 days later.
C5_BoundaryIsNextWeek ==
  (cronPc \in {"once", "twice"} /\ atTriggerInstant(SCHEDULES[schedule], now))
  => nextTrigger = addDays(now, 7)

\* C6: getNextCronTrigger applied to its own result gives the instant 7
\* days after that result.
C6_AgainIsAWeekLater ==
  cronPc = "twice" => secondTrigger = addDays(nextTrigger, 7)

(***************************************************************************)
(* scheduler.ts: startScheduler, the cron callbacks and executeBooking.    *)
(***************************************************************************)
\* cron.validate(cronExpression): every field is in its range.
cronValidate(sched) ==
  /\ sched.cronMinute \in 0..59
  /\ sched.cronHour \in 0..23
  /\ sched.cronDow \in 0..7

\* Variant: startScheduler does not filter the testOnly rules out.
registered_noTestFilter(cat) ==
  {i \in DOMAIN cat : cronValidate(cat[i])}

\* activeSchedules and the cron.validate test of startScheduler: the rules
\* cron.schedule is called for.
registered(cat) ==
  {i \in DOMAIN cat : ~cat[i].testOnly /\ cronValidate(cat[i])}

InitSched ==
  /\ catalog \in Catalogs
  /\ schedPc = "init"
  /\ jobs = {}
  /\ callback = [i \in DOMAIN catalog |-> "none"]
  /\ firings = 0
  /\ IdleBook /\ IdleCron /\ IdleCli /\ IdleRun /\ IdleConc /\ IdleBatch
  /\ IdleValid

\* startScheduler(): a recurring job for every rule that is not testOnly
\* and whose cron expression validates.
startScheduler ==
  /\ schedPc = "init"
  /\ jobs' = registered(catalog)
  /\ schedPc' = "running"
  /\ UNCHANGED <<catalog, callback, firings>>
  /\ UNCHANGED <<bookVars, cronVars, cliVars, runVars, concVars, batchVars,
                 validVars>>

\* executeBooking() up to its try block: loadEnvConfig, loadBookingConfig
\* (throws when bookings.config.json is missing or malformed) and the
\* construction of the automation and of the request.
executeBookingSetup(loadable) ==
  IF loadable THEN "attempting" ELSE "rejected"

\* The try { } catch { } of executeBooking around the attempt: a result,
\* successful or not, is logged and an exception is logged.
executeBookingTry(outcome) == "resolved"

\* The job of rule i fires: the callback logs and awaits executeBooking,
\* which runs up to the await of the attempt.  A callback whose promise
\* rejects has no handler in this program: the rejection is left to the
\* runtime, which either goes on or ends the process.
cronCallback(i) ==
  /\ schedPc = "running"
  /\ i \in jobs
  /\ callback[i] \in {"none", "resolved", "rejected"}
  /\ firings < MaxFirings
  /\ firings' = firings + 1
  /\ \E loadable \in BOOLEAN :
       LET next == executeBookingSetup(loadable) IN
       /\ callback' = [callback EXCEPT ![i] = next]
       /\ IF next = "rejected"
          THEN schedPc' \in {"running", "crashed"}
          ELSE schedPc' = schedPc
  /\ UNCHANGED <<catalog, jobs>>
  /\ UNCHANGED <<bookVars, cronVars, cliVars, runVars, concVars, batchVars,
                 validVars>>

\* The attempt of rule i's firing ends and executeBooking returns.
executeBookingAttempt(i) ==
  /\ schedPc = "running"
  /\ callback[i] = "attempting"
  /\ \E outcome \in {"success", "failure", "throws"} :
       callback' = [callback EXCEPT ![i] = executeBookingTry(outcome)]
  /\ UNCHANGED <<catalog, schedPc, jobs, firings>>
  /\ UNCHANGED <<bookVars, cronVars, cliVars, runVars, concVars, batchVars,
                 validVars>>

NextSched ==
  \/ startScheduler
  \/ \E i \in DOMAIN catalog : cronCallback(i)
  \/ \E i \in DOMAIN catalog : executeBookingAttempt(i)

SpecSched == InitSched /\ [][NextSched]_vars

\* C7: no exception raised during a scheduled firing, configuration
\* loading included, propagates out of the cron callback, and the
\* scheduler keeps running after a failed attempt.
C7_NothingEscapesTheCallback ==
  /\ \A i \in DOMAIN callback : callback[i] # "rejected"
  /\ schedPc # "crashed"

\* A rule's trigger specification is invalid: its trigger day, release
\* hour or release minute is out of range, or its cron expression is.
invalidTrigger(sched) ==
  \/ sched.cronDay \notin 0..6
  \/ sched.releaseHour \notin 0..23
  \/ sched.releaseMinute \notin 0..59
  \/ ~cronValidate(sched)

\* C20: a rule whose trigger specification is invalid is rejected by
\* startScheduler at registration: it gets no recurring job and no firing
\* of it ever occurs.
C20_InvalidRuleIsRejected ==
  schedPc # "init" =>
    \A i \in DOMAIN catalog :
      invalidTrigger(catalog[i]) => (i \notin jobs /\ callback[i] = "none")

(***************************************************************************)
(* cli.ts book and book-all, scheduler.ts run: the exit code.              *)
(***************************************************************************)
\* A request of the run: whether validateBookingParams accepts it and
\* whether the configuration file enables it.
Request == [valid : BOOLEAN, enabled : BOOLEAN]

Batches == UNION {[1..n -> Request] : n \in 0..MaxBatch}

\* enabledBookings
enabledBookings(b) == SelectSeq(b, LAMBDA r : r.enabled)

\* results.every((r) => r.success)
allSuccess(rs) == \A i \in DOMAIN rs : rs[i]

InitCli ==
  /\ command \in {"book", "book-all", "run"}
  /\ cliPc = "start"
  /\ CASE command = "book" ->
            /\ batch \in {<<r>> : r \in {q \in Request : q.enabled}}
            /\ scheduleId = 0
       [] command = "book-all" ->
            /\ batch \in Batches
            /\ scheduleId = 0
       [] OTHER ->
            /\ batch = <<>>
            /\ scheduleId \in 0..Len(SCHEDULES)
  /\ results = <<>>
  /\ exitCode = -1
  /\ IdleBook /\ IdleCron /\ IdleSched /\ IdleRun /\ IdleConc /\ IdleBatch
  /\ IdleValid

\* book: validation (exit 1 on errors), then loadBookingConfig, whose
\* exception nothing catches (the process ends with a non-zero code).
bookCommand ==
  /\ command = "book" /\ cliPc = "start"
  /\ \E loadable \in BOOLEAN :
       IF ~batch[1].valid \/ ~loadable
       THEN exitCode' = 1 /\ cliPc' = "exited"
       ELSE cliPc' = "attempt" /\ UNCHANGED exitCode
  /\ UNCHANGED <<command, batch, scheduleId, results>>
  /\ UNCHANGED <<bookVars, cronVars, schedVars, runVars, concVars, batchVars,
                 validVars>>

\* book: the attempt returns and process.exit(result.success ? 0 : 1).
bookAttempt ==
  /\ command = "book" /\ cliPc = "attempt"
  /\ \E success \in BOOLEAN :
       /\ results' = <<success>>
       /\ exitCode' = IF success THEN 0 ELSE 1
  /\ cliPc' = "exited"
  /\ UNCHANGED <<command, batch, scheduleId>>
  /\ UNCHANGED <<bookVars, cronVars, schedVars, runVars, concVars, batchVars,
                 validVars>>

\* book-all: loadBookingConfig (exit 1 when it throws), the filter on
\* enabled, exit 0 when nothing is enabled.
bookAllCommand ==
  /\ command = "book-all" /\ cliPc = "start"
  /\ \E loadable \in BOOLEAN :
       IF ~loadable
       THEN exitCode' = 1 /\ cliPc' = "exited"
       ELSE IF Len(enabledBookings(batch)) = 0
            THEN exitCode' = 0 /\ cliPc' = "exited"
            ELSE cliPc' = "loop" /\ UNCHANGED exitCode
  /\ UNCHANGED <<command, batch, scheduleId, results>>
  /\ UNCHANGED <<bookVars, cronVars, schedVars, runVars, concVars, batchVars,
                 validVars>>

\* book-all: one iteration of the loop over enabledBookings; an invalid
\* booking is recorded as a failed result without an attempt.
bookAllIteration ==
  /\ command = "book-all" /\ cliPc = "loop"
  /\ Len(results) < Len(enabledBookings(batch))
  /\ LET booking == enabledBookings(batch)[Len(results) + 1] IN
       IF ~booking.valid
       THEN results' = Append(results, FALSE)
       ELSE \E success \in BOOLEAN : results' = Append(results, success)
  /\ UNCHANGED <<command, cliPc, batch, scheduleId, exitCode>>
  /\ UNCHANGED <<bookVars, cronVars, schedVars, runVars, concVars, batchVars,
                 validVars>>

\* book-all: after the loop, printSummary and
\* process.exit(allSuccess ? 0 : 1).
bookAllExit ==
  /\ command = "book-all" /\ cliPc = "loop"
  /\ Len(results) = Len(enabledBookings(batch))
  /\ exitCode' = IF allSuccess(results) THEN 0 ELSE 1
  /\ cliPc' = "exited"
  /\ UNCHANGED <<command, batch, scheduleId, results>>
  /\ UNCHANGED <<bookVars, cronVars, schedVars, runVars, concVars, batchVars,
                 validVars>>

\* run: runNow exits 1 on an unknown id; otherwise executeBooking starts,
\* and an exception of its setup rejects runNow, which nothing handles
\* (the process ends with a non-zero code).
runNow ==
  /\ command = "run" /\ cliPc = "start"
  /\ \E loadable \in BOOLEAN :
       IF scheduleId = 0 \/ executeBookingSetup(loadable) = "rejected"
       THEN exitCode' = 1 /\ cliPc' = "exited"
       ELSE cliPc' = "attempt" /\ UNCHANGED exitCode
  /\ UNCHANGED <<command, batch, scheduleId, results>>
  /\ UNCHANGED <<bookVars, cronVars, schedVars, runVars, concVars, batchVars,
                 validVars>>

\* The exit code of runNow(scheduleId).then(() => process.exit(0)).
runExitCode(success) == 0

\* run: the attempt ends inside executeBooking's try, executeBooking
\* returns nothing, and the then-handler exits.
runAttempt ==
  /\ command = "run" /\ cliPc = "attempt"
  /\ \E outcome \in {"success", "failure", "throws"} :
       /\ executeBookingTry(outcome) = "resolved"
       /\ results' = <<outcome = "success">>
       /\ exitCode' = runExitCode(outcome = "success")
  /\ cliPc' = "exited"
  /\ UNCHANGED <<command, batch, scheduleId>>
  /\ UNCHANGED <<bookVars, cronVars, schedVars, runVars, concVars, batchVars,
                 validVars>>

NextCli ==
  \/ bookCommand
  \/ bookAttempt
  \/ bookAllCommand
  \/ bookAllIteration
  \/ bookAllExit
  \/ runNow
  \/ runAttempt

SpecCli == InitCli /\ [][NextCli]_vars

\* C8: for book, book-all and run, the exit code is 0 only if every
\* acquisition requested in the run returned success=true.
C8_ExitZeroOnlyIfAllSucceeded ==
  exitCode = 0 => \A i \in DOMAIN results : results[i]

(***************************************************************************)
(* scheduler.ts: one call of executeBooking, from a cron job or from the   *)
(* run command, followed through the stages of its attempt with the time   *)
(* they take.  bookWithPhases is the attempt of a rule that is not         *)
(* testOnly: the stages of book() with a wait for the release instant      *)
(* before the slot is claimed.                                             *)
(***************************************************************************)
\* date-fns nextMonday ... nextSunday: the next day with that weekday,
\* strictly after the date, at the same time of day.
nextDay(t, dow) ==
  LET delta == dow - getDay(t)
  IN addDays(t, IF delta <= 0 THEN delta + 7 ELSE delta)

getNextTargetDate(sched, t) ==
  LET releaseTime ==
        setMinutes(setHours(t, sched.releaseHour), sched.releaseMinute)
  IN IF getDay(t) = sched.cronDay /\ isBefore(releaseTime, t)
     THEN nextDay(addDays(t, 1), sched.targetDow)
     ELSE nextDay(t, sched.targetDow)

\* Variant: the date is formatted in UTC, 8 hours ahead of the wall clock.
formatBookingDate_utc(t) == (t + 8 * 3600) \div 86400

\* format(date, "dd-MMM-yyyy"): the calendar day, without the time of day.
formatBookingDate(t) == t \div 86400

\* The instant node-cron fires the job of a rule in a week.
cronInstant(sched) ==
  (sched.cronDow % 7) * 86400 + sched.cronHour * 3600 + sched.cronMinute * 60

\* Seconds by which a firing is late.
FiringDelay == {0, 1}

\* Seconds a stage of the attempt takes.
StageSeconds == {5, 65}

\* The instants the run command is given at: around the release time, on
\* the rule's cron weekday and on the day after.
RunOffsets == {-60, 0, 60}

RunInstants(sched) ==
  {d * 86400 + sched.releaseHour * 3600 + sched.releaseMinute * 60 + off :
     d \in {sched.cronDow % 7, (sched.cronDow + 1) % 7}, off \in RunOffsets}

\* The release instant the wait is for: the current day at
\* releaseHour:releaseMinute:00.
releaseInstant(t, hour, minute) ==
  (t \div 86400) * 86400 + hour * 3600 + minute * 60

\* Interval between two polls of the wait.
PollSeconds == 5

\* Variant: the wait goes on until the release instant is behind.
waitDone_strict(t, release) == t > release

\* The test of each poll: the release instant is reached or passed.
waitDone(t, release) == t >= release

\* Where the attempt goes after the filters: the phased attempt waits.
afterFilter(isPhased) == IF isPhased THEN "wait" ELSE "claim"

InitRun ==
  /\ command \in {"start", "run"}
  /\ cliPc = "idle"
  /\ batch = <<>>
  /\ scheduleId = 0
  /\ results = <<>>
  /\ exitCode = -1
  /\ catalog \in Catalogs
  /\ schedPc = IF command = "start" THEN "init" ELSE "idle"
  /\ jobs = {}
  /\ callback = [i \in DOMAIN catalog |-> "none"]
  /\ firings = 0
  /\ IdleRun /\ IdleBook /\ IdleCron /\ IdleConc /\ IdleBatch /\ IdleValid

\* The job of rule i fires: the callback calls executeBooking(schedule).
cronFires(i) ==
  /\ schedPc = "running"
  /\ i \in jobs
  /\ runPc = "idle"
  /\ \E late \in FiringDelay :
       /\ clock' = cronInstant(catalog[i]) + late
       /\ firedAt' = clock'
  /\ origin' = "cron"
  /\ rule' = i
  /\ runPc' = "executeBooking"
  /\ UNCHANGED <<releaseAt, targetDate, phased, stageAt, waitTicks, lastPoll,
                 clickAt, attempts>>
  /\ UNCHANGED <<bookVars, cronVars, schedVars, cliVars, concVars, batchVars,
                 validVars>>

\* run <schedule-id>: runNow looks the id up (exit 1 when no rule has it)
\* and calls executeBooking(schedule).
runNowAt ==
  /\ command = "run"
  /\ runPc = "idle"
  /\ \E id \in 0..Len(catalog) :
       /\ scheduleId' = id
       /\ IF id = 0
          THEN /\ runPc' = "exited"
               /\ exitCode' = 1
               /\ UNCHANGED <<origin, rule, clock, firedAt>>
          ELSE /\ \E t \in RunInstants(catalog[id]) :
                    clock' = t /\ firedAt' = t
               /\ origin' = "run"
               /\ rule' = id
               /\ runPc' = "executeBooking"
               /\ UNCHANGED exitCode
  /\ UNCHANGED <<releaseAt, targetDate, phased, stageAt, waitTicks, lastPoll,
                 clickAt, attempts>>
  /\ UNCHANGED <<command, cliPc, batch, results>>
  /\ UNCHANGED <<bookVars, cronVars, schedVars, concVars, batchVars,
                 validVars>>

\* executeBooking(schedule) up to the call of the attempt: the target date,
\* the configuration (its loading may throw, outside the try block), the
\* request, and the choice between bookWithPhases and book.
executeBooking ==
  /\ runPc = "executeBooking"
  /\ targetDate' = formatBookingDate(getNextTargetDate(catalog[rule], clock))
  /\ \E loadable \in BOOLEAN :
       IF executeBookingSetup(loadable) = "rejected"
       THEN /\ runPc' = "rejected"
            /\ UNCHANGED <<phased, releaseAt, attempts>>
       ELSE /\ phased' = ~catalog[rule].testOnly
            /\ releaseAt' = releaseInstant(clock, catalog[rule].releaseHour,
                                            catalog[rule].releaseMinute)
            /\ attempts' = attempts + 1
            /\ runPc' = "initialize"
  /\ UNCHANGED <<origin, rule, clock, firedAt, stageAt, waitTicks, lastPoll,
                 clickAt>>
  /\ UNCHANGED <<bookVars, cronVars, schedVars, cliVars, concVars, batchVars,
                 validVars>>

\* initialize, login and navigateAndFilter of the attempt: each takes its
\* time, and the attempt ends when one fails.
attemptPrepare(st) ==
  /\ runPc = st
  /\ stageAt' = [stageAt EXCEPT ![st] = clock]
  /\ \E d \in StageSeconds, ok \in BOOLEAN :
       /\ clock' = clock + d
       /\ runPc' = IF ~ok THEN "done"
                   ELSE CASE st = "initialize" -> "login"
                          [] st = "login" -> "filter"
                          [] OTHER -> afterFilter(phased)
  /\ UNCHANGED <<origin, rule, firedAt, releaseAt, targetDate, phased,
                 waitTicks, lastPoll, clickAt, attempts>>
  /\ UNCHANGED <<bookVars, cronVars, schedVars, cliVars, concVars, batchVars,
                 validVars>>

\* One poll of the wait for the release instant: go on to the claim when
\* the instant is reached, sleep one interval otherwise.
waitForRelease ==
  /\ runPc = "wait"
  /\ stageAt' = IF stageAt["wait"] = -1
                THEN [stageAt EXCEPT !["wait"] = clock] ELSE stageAt
  /\ IF waitDone(clock, releaseAt)
     THEN /\ runPc' = "claim"
          /\ UNCHANGED <<clock, waitTicks, lastPoll>>
     ELSE /\ clock' = clock + PollSeconds
          /\ waitTicks' = waitTicks + 1
          /\ lastPoll' = clock
          /\ UNCHANGED runPc
  /\ UNCHANGED <<origin, rule, firedAt, releaseAt, targetDate, phased,
                 clickAt, attempts>>
  /\ UNCHANGED <<bookVars, cronVars, schedVars, cliVars, concVars, batchVars,
                 validVars>>

\* findAndSelectSlot of the attempt: the Register button of the matching
\* row is clicked, or no row matches and the attempt ends.
attemptClaim ==
  /\ runPc = "claim"
  /\ stageAt' = [stageAt EXCEPT !["claim"] = clock]
  /\ \E d \in StageSeconds, found \in BOOLEAN :
       /\ clock' = clock + d
       /\ clickAt' = IF found THEN clock ELSE clickAt
       /\ runPc' = IF found THEN "finalize" ELSE "done"
  /\ UNCHANGED <<origin, rule, firedAt, releaseAt, targetDate, phased,
                 waitTicks, lastPoll, attempts>>
  /\ UNCHANGED <<bookVars, cronVars, schedVars, cliVars, concVars, batchVars,
                 validVars>>

\* completeRegistration of the attempt, and executeBooking logs its result.
attemptFinalize ==
  /\ runPc = "finalize"
  /\ stageAt' = [stageAt EXCEPT !["finalize"] = clock]
  /\ \E d \in StageSeconds : clock' = clock + d
  /\ runPc' = "done"
  /\ UNCHANGED <<origin, rule, firedAt, releaseAt, targetDate, phased,
                 waitTicks, lastPoll, clickAt, attempts>>
  /\ UNCHANGED <<bookVars, cronVars, schedVars, cliVars, concVars, batchVars,
                 validVars>>

NextRun ==
  \/ startScheduler
  \/ \E i \in DOMAIN catalog : cronFires(i)
  \/ runNowAt
  \/ executeBooking
  \/ \E st \in {"initialize", "login", "filter"} : attemptPrepare(st)
  \/ waitForRelease
  \/ attemptClaim
  \/ attemptFinalize

SpecRun == InitRun /\ [][NextRun]_vars

(***************************************************************************)
(* Properties of the attempt of executeBooking.                            *)
(***************************************************************************)
\* C13: an attempt started by run <rule-id> does not enter the wait for
\* the release instant, whatever the rule and the time: it has no poll
\* and sleeps no interval.
C13_RunBypassesTheWait ==
  origin = "run" => (stageAt["wait"] = -1 /\ waitTicks = 0)

\* C14: in an attempt started by a cron firing, the Register click is never
\* made before the rule's release instant, while initialize starts at the
\* firing, before the release instant, and login and the filters are not
\* held back by the wait.
C14_ClickNotBeforeRelease ==
  origin = "cron" =>
    /\ clickAt # -1 => clickAt >= releaseAt
    /\ stageAt["initialize"] # -1 =>
         (stageAt["initialize"] = firedAt /\ firedAt < releaseAt)
    /\ (stageAt["wait"] # -1 /\ stageAt["login"] # -1) =>
         stageAt["login"] <= stageAt["wait"]
    /\ (stageAt["wait"] # -1 /\ stageAt["filter"] # -1) =>
         stageAt["filter"] <= stageAt["wait"]

\* C15: the wait for the release instant never sleeps again at a poll
\* made at or after the release instant, sleeps not at all when the
\* instant has passed on entry, and is left, for the claim, at the first
\* poll at or after the release instant.
C15_WaitEndsAtRelease ==
  /\ lastPoll # -1 => lastPoll < releaseAt
  /\ (stageAt["wait"] # -1 /\ stageAt["wait"] >= releaseAt) => waitTicks = 0
  /\ (stageAt["wait"] # -1 /\ stageAt["claim"] # -1) =>
       /\ stageAt["claim"] >= releaseAt
       /\ stageAt["claim"] = stageAt["wait"] + waitTicks * PollSeconds
       /\ waitTicks > 0 => stageAt["claim"] - PollSeconds < releaseAt

\* C15 witness: an attempt fired by cron slept through several polls and
\* went on to the claim at the poll made exactly at the release instant.
C15_Witness ==
  /\ origin = "cron"
  /\ waitTicks >= 2
  /\ stageAt["claim"] = releaseAt
  /\ lastPoll = releaseAt - PollSeconds

\* The call followed is run <id> for a rule with testOnly set.
runOfTestRule ==
  origin = "run" /\ rule # 0 /\ catalog[rule].testOnly

\* The target date is resolved: a day with the rule's target weekday, after
\* the day the call was made and at most 8 days after it.
targetResolved ==
  /\ targetDate % 7 = catalog[rule].targetDow
  /\ targetDate > firedAt \div 86400
  /\ targetDate <= firedAt \div 86400 + 8

bookingParamsOf(sched) ==
  [activity |-> ACT_BADMINTON, dateOk |-> TRUE, time |-> sched.time,
   location |-> LOC_CLOVERDALE]

\* C21: a request with invalid fields never causes a browsing session to be
\* opened; in a scheduler firing, the request built from the rule is
\* validated before the session is opened, so initialize is started only
\* for a request validateBookingParams has no error for.
C21_InvalidRequestOpensNoSession ==
  (origin = "cron" /\ stageAt["initialize"] # -1)
  => validateBookingParams(bookingParamsOf(catalog[rule])) = {}

(***************************************************************************)
(* scheduler.ts: the target date and the next trigger of a rule, as        *)
(* listSchedules and startScheduler compute them at one instant and the    *)
(* status display computes them again later.                               *)
(***************************************************************************)
\* A value of ScheduleConfig that is not in SCHEDULES: the target weekday
\* is the day after the trigger day.
NEXT_DAY_RULE ==
  [id |-> "friday-saturday",
   time |-> <<"0", "8", ":", "1", "5", " ", "a", "m">>,
   cronMinute |-> 28, cronHour |-> 18, cronDow |-> 5,
   cronDay |-> 5, releaseHour |-> 18, releaseMinute |-> 30,
   targetDow |-> 6, testOnly |-> FALSE]

DateCatalogs == {SCHEDULES, Append(SCHEDULES, NEXT_DAY_RULE)}

\* The instants the dates are computed at: on every day of a week, around
\* the release and trigger times of the rules.
DateHours == {0, 9, 10, 17, 18, 19, 23}

DateMinutes == {0, 13, 15, 28, 30, 47, 49, 58, 59}

DateInstants ==
  {d * 86400 + h * 3600 + m * 60 + sec :
     d \in 0..6, h \in DateHours, m \in DateMinutes, sec \in SecondChoices}

\* Seconds between the first computation and the second.
Advances == {0, 30, 60, 120, 3600, 86400}

InitDates ==
  /\ catalog \in DateCatalogs
  /\ schedPc = "idle"
  /\ jobs = {}
  /\ callback = <<>>
  /\ firings = 0
  /\ schedule \in DOMAIN catalog
  /\ now \in DateInstants
  /\ nextTrigger = 0
  /\ secondTrigger = 0
  /\ cronPc = "start"
  /\ later = 0 /\ target = 0 /\ laterTarget = 0 /\ laterTrigger = 0
  /\ IdleBook /\ IdleCli /\ IdleRun /\ IdleConc /\ IdleBatch /\ IdleValid

\* The target date and the next trigger of the rule at now.
resolveDates ==
  /\ cronPc = "start"
  /\ target' = getNextTargetDate(catalog[schedule], now)
  /\ nextTrigger' = getNextCronTrigger(catalog[schedule], now)
  /\ cronPc' = "once"
  /\ UNCHANGED <<schedule, now, secondTrigger, later, laterTarget,
                 laterTrigger>>
  /\ UNCHANGED <<bookVars, schedVars, cliVars, runVars, concVars, batchVars,
                 validVars>>

\* The same computations at a later instant.
resolveLater ==
  /\ cronPc = "once"
  /\ \E dt \in Advances :
       /\ later' = now + dt
       /\ laterTarget' = getNextTargetDate(catalog[schedule], later')
       /\ laterTrigger' = getNextCronTrigger(catalog[schedule], later')
  /\ cronPc' = "twice"
  /\ UNCHANGED <<schedule, now, nextTrigger, secondTrigger, target>>
  /\ UNCHANGED <<bookVars, schedVars, cliVars, runVars, concVars, batchVars,
                 validVars>>

NextDates ==
  \/ resolveDates
  \/ resolveLater

SpecDates == InitDates /\ [][NextDates]_vars

(***************************************************************************)
(* Properties of getNextTargetDate and getNextCronTrigger.                 *)
(***************************************************************************)
\* The release instant of the day of t: that day at
\* releaseHour:releaseMinute:00.
releaseOfDay(sched, t) ==
  (t \div 86400) * 86400 + sched.releaseHour * 3600 + sched.releaseMinute * 60

\* t is on the rule's trigger day and that day's release instant is past.
releasePast(sched, t) ==
  getDay(t) = sched.cronDay /\ t > releaseOfDay(sched, t)

C24_AfterReleaseIsNextWeek ==
  LET sched == catalog[schedule] IN
  (/\ cronPc = "twice"
   /\ schedule \in ScheduleIds
   /\ getDay(now) = sched.cronDay
   /\ now < releaseOfDay(sched, now)
   /\ formatBookingDate(later) = formatBookingDate(now)
   /\ releasePast(sched, later))
  => formatBookingDate(laterTarget) = formatBookingDate(target) + 7

\* The minute of the day of an instant.
minuteOfDay(t) == getHours(t) * 60 + getMinutes(t)

\* C25: for every rule of SCHEDULES, the cron job fires on the rule's
\* trigger day at release hour:minute minus the 2-minute lead, the same day
\* and time of day that getNextCronTrigger, asked the day before, reports
\* for the rule.
C25_CronFiresAtLeadBeforeRelease ==
  LET sched == catalog[rule]
      reported == getNextCronTrigger(sched, addDays(firedAt, -1)) IN
  (origin = "cron" /\ rule \in ScheduleIds)
  => /\ getDay(firedAt) = sched.cronDay
     /\ minuteOfDay(firedAt) =
          sched.releaseHour * 60 + sched.releaseMinute - LeadMinutes
     /\ getDay(firedAt) = getDay(reported)
     /\ minuteOfDay(firedAt) = minuteOfDay(reported)

\* The instants of three weeks that lie on the rule's trigger day at the
\* lead-adjusted release time.
triggerInstants(sched) ==
  {w * 7 * 86400 + sched.cronDay * 86400 + sched.releaseHour * 3600
     + (sched.releaseMinute - LeadMinutes) * 60 : w \in 0..2}

\* C26: getNextCronTrigger returns the earliest future trigger: no instant
\* strictly between now and the result lies on the rule's trigger day at
\* the lead-adjusted release time, and the result is at most 7 days after
\* now.
C26_TriggerIsEarliest ==
  cronPc \in {"once", "twice"} =>
    /\ nextTrigger <= addDays(now, 7)
    /\ \A t \in triggerInstants(SCHEDULES[schedule]) :
         ~(now < t /\ t < nextTrigger)

\* C27: the next trigger never goes backward as time advances: for every
\* rule and instants now <= later, getNextCronTrigger(rule, now) <=
\* getNextCronTrigger(rule, later).
C27_TriggerNeverGoesBackward ==
  cronPc = "twice" => (now <= later /\ nextTrigger <= laterTrigger)

\* executeBooking has resolved the target date of the call.
targetDateSet == runPc \notin {"idle", "exited", "executeBooking"}

\* C28: when a job of a rule of SCHEDULES fires, the target date passed on
\* to the attempt is the calendar date exactly 3 days after the date of the
\* firing and falls on the rule's target weekday.
C28_TargetIsThreeDaysAfterFiring ==
  (origin = "cron" /\ rule \in ScheduleIds /\ targetDateSet)
  => /\ targetDate = firedAt \div 86400 + 3
     /\ targetDate % 7 = catalog[rule].targetDow

\* C28 witness: the job of the rule that fires at its release time itself
\* fired a second late, and its attempt started for the Saturday 3 days
\* after that Wednesday.
C28_Witness ==
  /\ origin = "cron"
  /\ rule = 8
  /\ firedAt = releaseOfDay(catalog[rule], firedAt) + 1
  /\ runPc = "initialize"
  /\ attempts = 1
  /\ targetDate = 6
  /\ firedAt \div 86400 = 3

\* ---------------------------------------------------------------------
\* Firings that overlap: executeBooking is an async callback, so the job
\* of one rule may fire while the attempt of another is still under way.
\* ---------------------------------------------------------------------

\* Largest number of attempts followed together.
MaxOverlap == 2

\* Variant: one automation instance made once and handed to every call.
newAutomation_shared(made) == 1

\* new SurreyBookingAutomation(envConfig, settings) in executeBooking: every
\* call constructs an instance of its own, with fields browser, context
\* and page that start null.
newAutomation(made) == made + 1

InitOverlap ==
  /\ catalog = SCHEDULES
  /\ schedPc = "init"
  /\ jobs = {}
  /\ callback = [i \in DOMAIN catalog |-> "none"]
  /\ firings = 0
  /\ runs = <<>>
  /\ fields = <<>>
  /\ sessions = <<>>
  /\ IdleBook /\ IdleCron /\ IdleCli /\ IdleRun /\ IdleBatch /\ IdleValid

\* The rules an attempt is under way for.
underWay == {runs[n].rule : n \in {k \in DOMAIN runs : runs[k].pc # "returned"}}

\* The job of rule i fires while other attempts may be under way:
\* executeBooking constructs the automation and calls the attempt.
overlapFires(i) ==
  /\ schedPc = "running"
  /\ i \in jobs
  /\ i \notin underWay
  /\ Len(runs) < MaxOverlap
  /\ LET inst == newAutomation(Len(fields))
     IN /\ runs' = Append(runs, [rule |-> i, inst |-> inst,
                                 pc |-> "initialize"])
        /\ fields' = IF inst > Len(fields) THEN Append(fields, 0) ELSE fields
  /\ UNCHANGED sessions
  /\ UNCHANGED <<bookVars, cronVars, schedVars, cliVars, runVars, batchVars,
                 validVars>>

\* initialize() of attempt n: chromium.launch, newContext and newPage are
\* stored in the fields of the attempt's instance; a failed launch throws.
overlapInitialize(n) ==
  /\ n \in DOMAIN runs
  /\ runs[n].pc = "initialize"
  /\ \E launched \in BOOLEAN :
       IF launched
       THEN /\ sessions' = Append(sessions, [by |-> n, users |-> {n},
                                             open |-> TRUE, closedBy |-> 0])
            /\ fields' = [fields EXCEPT ![runs[n].inst] = Len(sessions) + 1]
            /\ runs' = [runs EXCEPT ![n].pc = "stages"]
       ELSE /\ runs' = [runs EXCEPT ![n].pc = "cleanup"]
            /\ UNCHANGED <<fields, sessions>>
  /\ UNCHANGED <<bookVars, cronVars, schedVars, cliVars, runVars, batchVars,
                 validVars>>

\* A stage of attempt n (login, navigation, filters, the scan,
\* registration): it works on this.page of the attempt's instance and
\* throws when the field is null or the page is closed; the attempt then
\* goes on with its stages or leaves them for the finally block.
overlapStage(n) ==
  /\ n \in DOMAIN runs
  /\ runs[n].pc = "stages"
  /\ LET s == fields[runs[n].inst]
     IN IF s = 0
        THEN /\ runs' = [runs EXCEPT ![n].pc = "cleanup"]
             /\ UNCHANGED sessions
        ELSE /\ sessions' = [sessions EXCEPT ![s].users = @ \cup {n}]
             /\ IF sessions[s].open
                THEN \E more \in BOOLEAN :
                       runs' = [runs EXCEPT
                                  ![n].pc = IF more THEN "stages"
                                            ELSE "cleanup"]
                ELSE runs' = [runs EXCEPT ![n].pc = "cleanup"]
  /\ UNCHANGED fields
  /\ UNCHANGED <<bookVars, cronVars, schedVars, cliVars, runVars, batchVars,
                 validVars>>

\* cleanup() of attempt n, in the finally block: what the fields of the
\* attempt's instance refer to is closed and the fields are set to null.
overlapCleanup(n) ==
  /\ n \in DOMAIN runs
  /\ runs[n].pc = "cleanup"
  /\ LET s == fields[runs[n].inst]
     IN /\ sessions' = IF s # 0 /\ sessions[s].open
                       THEN [sessions EXCEPT ![s].open = FALSE,
                                             ![s].closedBy = n]
                       ELSE sessions
        /\ fields' = [fields EXCEPT ![runs[n].inst] = 0]
  /\ runs' = [runs EXCEPT ![n].pc = "returned"]
  /\ UNCHANGED <<bookVars, cronVars, schedVars, cliVars, runVars, batchVars,
                 validVars>>

NextOverlap ==
  \/ startScheduler
  \/ \E i \in DOMAIN catalog : overlapFires(i)
  \/ \E n \in 1..MaxOverlap : overlapInitialize(n)
  \/ \E n \in 1..MaxOverlap : overlapStage(n)
  \/ \E n \in 1..MaxOverlap : overlapCleanup(n)

SpecOverlap == InitOverlap /\ [][NextOverlap]_vars

\* C32: Of attempts that overlap, each has an automation instance of its
\* own, no session is used by an attempt other than the one that launched
\* it, and no session is closed by the cleanup of another attempt.
C32_OverlappingAttemptsShareNothing ==
  /\ \A n, m \in DOMAIN runs : n # m => runs[n].inst # runs[m].inst
  /\ \A s \in DOMAIN sessions :
       /\ sessions[s].users = {sessions[s].by}
       /\ sessions[s].closedBy \in {0, sessions[s].by}
  /\ \A n \in DOMAIN runs :
       runs[n].pc = "stages" =>
         /\ fields[runs[n].inst] # 0
         /\ sessions[fields[runs[n].inst]].by = n
         /\ sessions[fields[runs[n].inst]].open

\* Two attempts overlapped: the second began and ended, closing its own
\* session, while the first still works on its open session.
C32_Witness ==
  /\ Len(runs) >= 2
  /\ runs[1].pc = "stages" /\ runs[2].pc = "returned"
  /\ Len(sessions) >= 2
  /\ \E s, t \in DOMAIN sessions :
       /\ sessions[s].by = 1 /\ sessions[s].open
       /\ sessions[t].by = 2 /\ sessions[t].closedBy = 2

\* ---------------------------------------------------------------------
\* cli.ts book-all and test-login, step by step: the attempts of the loop,
\* the delays between them, the sessions they hold, the summary.
\* ---------------------------------------------------------------------

\* Milliseconds of the delay between two bookings.
DELAY_MS == 5000

\* What book() can return, as far as the summary reads it: a failure, a
\* success, a waitlisted success (waitlisted is set only on a success).
BookReturns ==
  {[success |-> FALSE, waitlisted |-> FALSE],
   [success |-> TRUE, waitlisted |-> FALSE],
   [success |-> TRUE, waitlisted |-> TRUE]}

\* Variant: the delay follows every attempt.
delayAfter_always(index, length) == TRUE

\* if (enabledBookings.indexOf(booking) < enabledBookings.length - 1), with
\* index counted from 0.
delayAfter(index, length) == index < length - 1

\* Variant: book() returns without closing what it opened.
bookReleases_nothing(held, k) == held

\* The sessions still open when book() of attempt k has returned: its
\* finally block has run cleanup(), which closes page, context and browser.
bookReleases(held, k) == held \ {k}

\* Variant: the successful count leaves the waitlisted outcomes out.
successfulOf_notWaitlisted(rs) ==
  Cardinality({i \in DOMAIN rs : rs[i].success /\ ~rs[i].waitlisted})

\* results.filter((r) => r.success).length
successfulOf(rs) == Cardinality({i \in DOMAIN rs : rs[i].success})

\* results.filter((r) => !r.success).length
failedOf(rs) == Cardinality({i \in DOMAIN rs : ~rs[i].success})

\* results.filter((r) => r.waitlisted).length
waitlistedOf(rs) == Cardinality({i \in DOMAIN rs : rs[i].waitlisted})

\* The status printed for a result.
statusLine(r) ==
  IF r.success THEN IF r.waitlisted THEN "WAITLIST" ELSE "SUCCESS"
  ELSE "FAILED"

\* printSummary(results): the four counts, then one entry per result in
\* the order of the array.
printSummary(rs) ==
  [total |-> Len(rs),
   successful |-> successfulOf(rs),
   waitlisted |-> waitlistedOf(rs),
   failed |-> failedOf(rs),
   lines |-> [i \in DOMAIN rs |-> [request |-> rs[i].request,
                                   status |-> statusLine(rs[i])]]]

InitBatch ==
  /\ command \in {"book-all", "test-login"}
  /\ cliPc = "start"
  /\ batch \in IF command = "book-all" THEN Batches ELSE {<<>>}
  /\ scheduleId = 0
  /\ results = <<>>
  /\ exitCode = -1
  /\ iterPc = "idle"
  /\ outcomes = <<>>
  /\ events = <<>>
  /\ opened = {}
  /\ summary = <<>>
  /\ cleanups = 0
  /\ IdleBook /\ IdleCron /\ IdleSched /\ IdleRun /\ IdleConc /\ IdleValid

\* book-all up to the loop: loadBookingConfig (exit 1 when it throws), the
\* filter on enabled, exit 0 when nothing is enabled.
batchCommand ==
  /\ command = "book-all" /\ cliPc = "start"
  /\ \E loadable \in BOOLEAN :
       IF ~loadable
       THEN exitCode' = 1 /\ cliPc' = "exited" /\ UNCHANGED iterPc
       ELSE IF Len(enabledBookings(batch)) = 0
            THEN exitCode' = 0 /\ cliPc' = "exited" /\ UNCHANGED iterPc
            ELSE cliPc' = "loop" /\ iterPc' = "top" /\ UNCHANGED exitCode
  /\ UNCHANGED <<command, batch, scheduleId, results>>
  /\ UNCHANGED <<outcomes, events, opened, summary, cleanups>>
  /\ UNCHANGED <<bookVars, cronVars, schedVars, runVars, concVars, validVars>>

\* The top of an iteration: an invalid booking is pushed as a failed
\* result and the loop continues; for a valid one an automation is
\* constructed and book() is called, whose initialize opens the session
\* (or fails to launch one).
batchIteration ==
  /\ cliPc = "loop" /\ iterPc = "top"
  /\ Len(outcomes) < Len(enabledBookings(batch))
  /\ LET k == Len(outcomes) + 1
         booking == enabledBookings(batch)[k]
     IN IF ~booking.valid
        THEN /\ outcomes' = Append(outcomes,
                              [request |-> k, success |-> FALSE,
                               waitlisted |-> FALSE,
                               message |-> "Invalid parameters"])
             /\ events' = Append(events, [kind |-> "skip", request |-> k,
                                          ms |-> 0])
             /\ UNCHANGED <<iterPc, opened>>
        ELSE /\ \E launched \in BOOLEAN :
                  /\ events' = Append(events,
                                  [kind |-> IF launched THEN "start"
                                            ELSE "start-failed",
                                   request |-> k, ms |-> 0])
                  /\ opened' = IF launched THEN opened \cup {k}
                               ELSE opened
             /\ iterPc' = "book"
             /\ UNCHANGED outcomes
  /\ UNCHANGED <<summary, cleanups>>
  /\ UNCHANGED cliVars
  /\ UNCHANGED <<bookVars, cronVars, schedVars, runVars, concVars, validVars>>

\* await automation.book(booking) returns: cleanup() has run in its
\* finally block, the result is pushed, and the test for the delay is
\* made.
batchReturn ==
  /\ cliPc = "loop" /\ iterPc = "book"
  /\ LET k == Len(outcomes) + 1
     IN /\ \E r \in BookReturns :
             outcomes' = Append(outcomes,
                           [request |-> k, success |-> r.success,
                            waitlisted |-> r.waitlisted,
                            message |-> "book"])
        /\ opened' = bookReleases(opened, k)
        /\ cleanups' = cleanups + 1
        /\ events' = Append(events, [kind |-> "return", request |-> k,
                                     ms |-> 0])
        /\ iterPc' = IF delayAfter(k - 1, Len(enabledBookings(batch)))
                     THEN "delay" ELSE "top"
  /\ UNCHANGED summary
  /\ UNCHANGED cliVars
  /\ UNCHANGED <<bookVars, cronVars, schedVars, runVars, concVars, validVars>>

\* await new Promise((resolve) => setTimeout(resolve, 5000))
batchDelay ==
  /\ cliPc = "loop" /\ iterPc = "delay"
  /\ events' = Append(events, [kind |-> "delay", request |-> Len(outcomes),
                               ms |-> DELAY_MS])
  /\ iterPc' = "top"
  /\ UNCHANGED <<outcomes, opened, summary, cleanups>>
  /\ UNCHANGED cliVars
  /\ UNCHANGED <<bookVars, cronVars, schedVars, runVars, concVars, validVars>>

\* After the loop: printSummary(results) and
\* process.exit(allSuccess ? 0 : 1).
batchExit ==
  /\ cliPc = "loop" /\ iterPc = "top"
  /\ Len(outcomes) = Len(enabledBookings(batch))
  /\ summary' = <<printSummary(outcomes)>>
  /\ exitCode' = IF \A i \in DOMAIN outcomes : outcomes[i].success
                 THEN 0 ELSE 1
  /\ cliPc' = "exited"
  /\ iterPc' = "idle"
  /\ UNCHANGED <<command, batch, scheduleId, results>>
  /\ UNCHANGED <<outcomes, events, opened, cleanups>>
  /\ UNCHANGED <<bookVars, cronVars, schedVars, runVars, concVars, validVars>>

\* test-login up to the try block: loadEnvConfig and loadBookingConfig,
\* whose exception nothing catches, then the automation is constructed.
testLoginCommand ==
  /\ command = "test-login" /\ cliPc = "start"
  /\ \E loadable \in BOOLEAN :
       IF ~loadable
       THEN exitCode' = 1 /\ cliPc' = "exited" /\ UNCHANGED events
       ELSE /\ cliPc' = "initialize"
            /\ events' = Append(events, [kind |-> "constructed",
                                         request |-> 1, ms |-> 0])
            /\ UNCHANGED exitCode
  /\ UNCHANGED <<command, batch, scheduleId, results>>
  /\ UNCHANGED <<iterPc, outcomes, opened, summary, cleanups>>
  /\ UNCHANGED <<bookVars, cronVars, schedVars, runVars, concVars, validVars>>

\* await automation.initialize() in the try block: when it throws (with
\* the browser launched or not), the catch block logs and calls
\* process.exit(1), which ends the process there.
testLoginInitialize ==
  /\ command = "test-login" /\ cliPc = "initialize"
  /\ \E outcome \in {"ok", "launch", "newPage"} :
       /\ opened' = IF outcome = "launch" THEN {} ELSE {1}
       /\ IF outcome = "ok"
          THEN cliPc' = "login" /\ UNCHANGED exitCode
          ELSE cliPc' = "exited" /\ exitCode' = 1
  /\ UNCHANGED <<command, batch, scheduleId, results>>
  /\ UNCHANGED <<iterPc, outcomes, events, summary, cleanups>>
  /\ UNCHANGED <<bookVars, cronVars, schedVars, runVars, concVars, validVars>>

\* const success = await automation.login(), then process.exit(0) or
\* process.exit(1) inside the try block: the process ends at that call,
\* before the finally block.
testLoginLogin ==
  /\ command = "test-login" /\ cliPc = "login"
  /\ \E success \in BOOLEAN :
       /\ results' = <<success>>
       /\ exitCode' = IF success THEN 0 ELSE 1
  /\ cliPc' = "exited"
  /\ UNCHANGED <<command, batch, scheduleId>>
  /\ UNCHANGED batchVars
  /\ UNCHANGED <<bookVars, cronVars, schedVars, runVars, concVars, validVars>>

NextBatch ==
  \/ batchCommand
  \/ batchIteration
  \/ batchReturn
  \/ batchDelay
  \/ batchExit
  \/ testLoginCommand
  \/ testLoginInitialize
  \/ testLoginLogin

SpecBatch == InitBatch /\ [][NextBatch]_vars

\* The positions in events of the attempts started.
startsOf(e) == {i \in DOMAIN e : e[i].kind \in {"start", "start-failed"}}

\* C33: in book-all, between every two consecutive attempts a delay of 5
\* seconds elapses, after the first attempt has returned and before the
\* next starts, and no delay follows the last request of the batch.
C33_DelayBetweenAttempts ==
  /\ \A i, j \in startsOf(events) :
       i < j =>
         \E r, d \in DOMAIN events :
           /\ i < r /\ r < d /\ d < j
           /\ events[r].kind = "return"
           /\ events[r].request = events[i].request
           /\ events[d].kind = "delay" /\ events[d].ms = 5000
  /\ \A d \in DOMAIN events :
       events[d].kind = "delay" =>
         events[d].request < Len(enabledBookings(batch))

\* A batch of two valid bookings has run to its end: one delay, between
\* the return of the first attempt and the start of the second.
C33_Witness ==
  /\ command = "book-all" /\ cliPc = "exited"
  /\ Len(events) = 5
  /\ events[2].kind = "return" /\ events[3].kind = "delay"
  /\ events[4].kind = "start" /\ events[5].kind = "return"

\* C34: the summary of a batch is a tally of the outcomes: successful and
\* failed add up to the total, every outcome counted as waitlisted is
\* counted as successful too, and each outcome is listed once, in request
\* order.
C34_SummaryIsATally ==
  summary # <<>> =>
    LET s == summary[1]
    IN /\ s.total = Len(outcomes)
       /\ s.successful + s.failed = s.total
       /\ \A i \in DOMAIN outcomes :
            outcomes[i].waitlisted => outcomes[i].success
       /\ s.waitlisted <= s.successful
       /\ DOMAIN s.lines = DOMAIN outcomes
       /\ \A i \in DOMAIN s.lines :
            /\ s.lines[i].request = i
            /\ s.lines[i].status = "FAILED" <=> ~outcomes[i].success
            /\ s.lines[i].status = "WAITLIST" <=> outcomes[i].waitlisted

\* A summary of two outcomes was printed: a waitlisted success and a
\* failure.
C34_Witness ==
  /\ summary # <<>>
  /\ summary[1].total = 2 /\ summary[1].successful = 1
  /\ summary[1].waitlisted = 1 /\ summary[1].failed = 1
  /\ summary[1].lines[1].status = "WAITLIST"
  /\ summary[1].lines[2].status = "FAILED"

\* ---------------------------------------------------------------------
\* cli.ts book: the parameters given on the command line are validated
\* before anything else is done with them.
\* ---------------------------------------------------------------------

\* Parts time labels are put together from.
HourParts == {<<"8">>, <<"0", "8">>, <<"1", "0">>, <<"6">>, <<"x">>}

MinuteParts == {<<"1", "5">>, <<"0", "0">>, <<"5">>}

GapParts == {<<>>, <<" ">>}

SuffixParts == {<<"a", "m">>, <<"P", "M">>, <<"p", "m">>, <<"h">>, <<>>}

\* The time labels a request is given with; the empty label among them.
TimeLabels ==
  {<<>>} \cup
  {h \o <<":">> \o m \o g \o x :
     h \in HourParts, m \in MinuteParts, g \in GapParts, x \in SuffixParts}

\* A label of the form H:MM am|pm, in any letter case: an hour of one or
\* two digits, a colon, two digits, a space, am or pm.
isTimeLabel(time) ==
  \E n \in {1, 2} :
    /\ Len(time) = n + 6
    /\ \A k \in 1..n : time[k] \in DIGITS
    /\ time[n + 1] = ":"
    /\ time[n + 2] \in DIGITS /\ time[n + 3] \in DIGITS
    /\ time[n + 4] = " "
    /\ toLowerCase(SubSeq(time, n + 5, n + 6))
         \in {<<"a", "m">>, <<"p", "m">>}

InitValidate ==
  /\ command = "book"
  /\ cliPc = "start"
  /\ batch = <<>>
  /\ scheduleId = 0
  /\ results = <<>>
  /\ exitCode = -1
  /\ options \in [activity : {<<>>, ACT_BADMINTON}, dateOk : BOOLEAN,
                  time : TimeLabels, location : {LOC_CLOVERDALE}]
  /\ errors = {}
  /\ IdleBook /\ IdleCron /\ IdleSched /\ IdleRun /\ IdleConc /\ IdleBatch

\* book: validateBookingParams(params), process.exit(1) when it reports
\* errors; then loadBookingConfig, whose exception nothing catches.
bookValidate ==
  /\ command = "book" /\ cliPc = "start"
  /\ errors' = validateBookingParams(options)
  /\ \E loadable \in BOOLEAN :
       IF errors' # {} \/ ~loadable
       THEN exitCode' = 1 /\ cliPc' = "exited"
       ELSE cliPc' = "attempt" /\ UNCHANGED exitCode
  /\ UNCHANGED <<command, batch, scheduleId, results, options>>
  /\ UNCHANGED <<bookVars, cronVars, schedVars, runVars, concVars, batchVars>>

\* book: the attempt for the validated request returns and
\* process.exit(result.success ? 0 : 1).
bookValidated ==
  /\ command = "book" /\ cliPc = "attempt"
  /\ \E success \in BOOLEAN :
       /\ results' = <<success>>
       /\ exitCode' = IF success THEN 0 ELSE 1
  /\ cliPc' = "exited"
  /\ UNCHANGED <<command, batch, scheduleId, options, errors>>
  /\ UNCHANGED <<bookVars, cronVars, schedVars, runVars, concVars, batchVars>>

NextValidate ==
  \/ bookValidate
  \/ bookValidated

SpecValidate == InitValidate /\ [][NextValidate]_vars

\* C35: the validation accepts every time label of the form H:MM am|pm in
\* any letter case, single-digit hours such as "8:15 am" included, and
\* rejects the labels that are not of that form.
C35_TimeLabelsAccepted ==
  cliPc # "start" => ("time" \in errors <=> ~isTimeLabel(options.time))

\* ---------------------------------------------------------------------
\* The status listSchedules and startScheduler show for a rule.
\* ---------------------------------------------------------------------

\* isToday && !hasPassed, hasPassed, or neither: the three branches of the
\* status display, with releaseTime built from now by setHours and
\* setMinutes.
scheduleStatus(sched, t) ==
  LET isToday == getDay(t) = sched.cronDay
      releaseTime ==
        setMinutes(setHours(t, sched.releaseHour), sched.releaseMinute)
      hasPassed == isToday /\ isBefore(releaseTime, t)
  IN IF isToday /\ ~hasPassed THEN "today"
     ELSE IF hasPassed THEN "completed"
     ELSE "waiting"

\* C38: when the listing shows a rule as pending today (today is its
\* trigger day and the release time has not passed), the next trigger it
\* shows for the rule lies on today's date, less than one day away.
C38_PendingTodayTriggersToday ==
  (cronPc \in {"once", "twice"}
   /\ scheduleStatus(catalog[schedule], now) = "today")
  => /\ formatBookingDate(nextTrigger) = formatBookingDate(now)
     /\ nextTrigger - now < 86400

\* C39: in book-all at most one browsing session is open at any time: an
\* attempt starts only after the attempt before it has returned and
\* released its session.
C39_OneSessionAtATime ==
  command = "book-all" =>
    /\ Cardinality(opened) <= 1
    /\ iterPc # "book" => opened = {}
    /\ iterPc = "book" => opened \subseteq {Len(outcomes) + 1}
    /\ \A i, j \in startsOf(events) :
         i < j =>
           \E r \in DOMAIN events :
             /\ i < r /\ r < j
             /\ events[r].kind = "return"
             /\ events[r].request = events[i].request

\* The second attempt of a batch holds its session; the first attempt had
\* opened one too and has returned.
C39_Witness ==
  /\ command = "book-all" /\ iterPc = "book"
  /\ opened = {2}
  /\ events[1].kind = "start" /\ events[2].kind = "return"
  /\ cleanups = 1

\* C40: test-login releases the session on every exit path: once the
\* automation is constructed, cleanup() has run and no session is open
\* when the process exits.
C40_TestLoginReleasesSession ==
  (command = "test-login" /\ cliPc = "exited" /\ events # <<>>)
  => (cleanups >= 1 /\ opened = {})

=============================================================================
